---- MODULE Spec2Model ----
(***************************************************************************)
(* A model of reconcile-tfstate: the run of runApplication (setup and      *)
(* backup of the state file, decoding, the concurrent classification of    *)
(* every resource instance, aggregation, execution of the remediation      *)
(* commands, post-reconciliation backups and uploads) and of main's crash  *)
(* recovery.                                                               *)
(*                                                                         *)
(* Strings are sequences of atoms.  An atom is an indivisible piece of     *)
(* text ("terraform", "aws_vpc", ".", " ", ":").  Concatenation is \o,     *)
(* splitting and comparing work atom by atom, so that formatting a command *)
(* and splitting it again, or cutting the region out of an ARN, are        *)
(* computed and not assumed.                                               *)
(***************************************************************************)
EXTENDS Integers, Sequences, FiniteSets, TLC

VARIABLES
    config,      \* Config: IsS3State, ExecuteCommands, Concurrency
    fs,          \* local files: path -> content ("none" when the file does not exist)
    s3,          \* the object stored at s3://S3Bucket/S3Key
    pc,          \* position of the main goroutine in main / runApplication
    tfState,     \* the decoded TFStateFile (Resources), NoState before decoding
    spawned,     \* number of worker goroutines started by processResources
    workers,     \* per work item: state of its goroutine and the status it computed
    calls,       \* per work item: number of verify* invocations made for it
    resultsChan, \* the buffered channel: queued statuses and the closed flag
    results,     \* categorizedResults
    run,         \* locals and globals of the run: hashes, flags, exit status
    cmdIdx,      \* executeCommands: index of the next command of RunCommands
    events       \* the sequence of file, command and upload operations performed

vars == <<config, fs, s3, pc, tfState, spawned, workers, calls, resultsChan,
          results, run, cmdIdx, events>>

(***************************************************************************)
(* Bounds of the model.                                                    *)
(***************************************************************************)
MaxInstances == 2
MaxConcurrency == 2

(***************************************************************************)
(* Strings.                                                                *)
(***************************************************************************)
EmptyString == << >>

\* The atoms that occur in strings the program sorts, in ascending order.
AtomOrder ==
    << " ", "\"", "-state=", ".", "0", "1", "VPC-1", "[", "]", "aws_caller_identity",
       "aws_foo", "aws_lb", "aws_vpc", "import", "local", "m", "module", "n", "rm",
       "s3://bucket/key", "state", "terraform", "vpc-1", "vpc-2", "vpc-9" >>

AtomRank(a) == CHOOSE i \in 1..Len(AtomOrder) : AtomOrder[i] = a

\* s < t for Go strings: lexicographic, a proper prefix is smaller.
RECURSIVE StringLess(_, _)
StringLess(s, t) ==
    IF Len(t) = 0 THEN FALSE
    ELSE IF Len(s) = 0 THEN TRUE
    ELSE IF Head(s) = Head(t) THEN StringLess(Tail(s), Tail(t))
    ELSE AtomRank(Head(s)) < AtomRank(Head(t))

\* Unicode simple case folding, on the atoms that have letters in two cases.
FoldAtom(a) ==
    CASE a = "VPC-1" -> "vpc-1"
      [] OTHER -> a

\* strings.EqualFold
EqualFoldMutant(s, t) == s = t
EqualFold(s, t) ==
    /\ Len(s) = Len(t)
    /\ \A i \in 1..Len(s) : FoldAtom(s[i]) = FoldAtom(t[i])

\* strings.Split(s, sep) for a one-atom separator: always at least one part.
RECURSIVE SplitAcc(_, _, _)
SplitAcc(s, sep, cur) ==
    IF Len(s) = 0 THEN << cur >>
    ELSE IF Head(s) = sep THEN << cur >> \o SplitAcc(Tail(s), sep, EmptyString)
    ELSE SplitAcc(Tail(s), sep, Append(cur, Head(s)))

Split(s, sep) == SplitAcc(s, sep, EmptyString)

\* extractRegionFromARN: the fourth colon-separated part, "" when there is none.
extractRegionFromARN(arn) ==
    LET parts == Split(arn, ":") IN IF Len(parts) >= 4 THEN parts[4] ELSE EmptyString

(***************************************************************************)
(* Attribute values, as json.Unmarshal leaves them in map[string]interface{}*)
(***************************************************************************)
Absent == [t |-> "absent", s |-> EmptyString]
Null == [t |-> "null", s |-> EmptyString]
Str(s) == [t |-> "str", s |-> s]
\* a JSON number; s is its %v rendering
Num(s) == [t |-> "num", s |-> s]

\* v.(string) with the comma-ok form: the string, or "" when v is no string
IsString(v) == v.t = "str"
AsString(v) == IF v.t = "str" THEN v.s ELSE EmptyString
\* val, ok := attributes[k]; !ok || val == nil
MissingOrNil(v) == v.t \in {"absent", "null"}
\* fmt.Sprintf("%v", val)
SprintV(v) == v.s

(***************************************************************************)
(* The decoded snapshot: ResourceStateV4 and InstanceObjectStateV4.        *)
(***************************************************************************)
AttrNames ==
    { "id", "arn", "load_balancer_arn", "target_group_arn", "rule_arn",
      "certificate_arn", "instance_profile_arn", "role_arn", "function_arn",
      "distribution_arn", "autoscaling_group_arn", "policy_arn", "alarm_arn",
      "bucket_arn", "service_arn", "task_definition_arn", "bucket", "name",
      "key_name", "zone_id", "listener_arn", "security_group_rule_id", "type",
      "cluster_name", "cluster", "secret_id", "version_id", "allocation_id",
      "route_table_id", "destination_cidr_block", "destination_ipv6_cidr_block",
      "autoscaling_group_name", "alarm_name", "role", "function_name",
      "statement_id", "key" }

NoAttributes == [a \in AttrNames |-> Absent]

\* IndexKey interface{}: nil, a string, a JSON number (twice its value, so that
\* halves exist), or a value of another type with its %v rendering.
NoIndexKey == [t |-> "nil", s |-> EmptyString, twice |-> 0]
StringKey(s) == [t |-> "str", s |-> s, twice |-> 0]
NumberKey(twice) == [t |-> "num", s |-> EmptyString, twice |-> twice]
OtherKey(s) == [t |-> "other", s |-> s, twice |-> 0]

DigitAtom == << "0", "1", "2", "3", "4", "5", "6", "7", "8", "9" >>

\* fmt's %d of a non-negative int
RECURSIVE FormatInt(_)
FormatInt(n) ==
    IF n < 10 THEN << DigitAtom[n + 1] >>
    ELSE FormatInt(n \div 10) \o << DigitAtom[(n % 10) + 1] >>

\* The address computed at the head of processResourceInstance.
tfAddress(resource, instance) ==
    LET base == << resource.Type >> \o << "." >> \o resource.Name
        withModule == IF resource.Module # EmptyString
                      THEN resource.Module \o << "." >> \o base
                      ELSE base
        k == instance.IndexKey
    IN  CASE k.t = "nil" -> withModule
          [] k.t = "str" -> withModule \o << "[", "\"" >> \o k.s \o << "\"", "]" >>
          [] k.t = "num" -> withModule \o << "[" >> \o FormatInt(k.twice \div 2) \o << "]" >>
          [] OTHER -> withModule \o << "[" >> \o k.s \o << "]" >>

\* The attribute map of an instance.  form tells how the instance carries its
\* attributes: "raw" (AttributesRaw that decodes), "bad" (AttributesRaw that
\* does not decode), "flat" (AttributesFlat) or "none"; the map stays nil, and
\* every lookup misses, in the last case.
UnmarshalFails(instance) == instance.form = "bad"
Attributes(instance) ==
    IF instance.form \in {"raw", "flat"} THEN instance.attrs ELSE NoAttributes

(***************************************************************************)
(* ResourceStatus.  Message, TFID, AWSID, Stdout and Stderr are renderings *)
(* of the fields kept here and are left out.  src is the position of the   *)
(* instance in the snapshot, kept to tell results of equal content apart.  *)
(***************************************************************************)
Categories ==
    { "INFO", "OK", "WARNING", "ERROR", "POTENTIAL_IMPORT", "DANGEROUS",
      "REGION_MISMATCH" }

NewStatus(addr, stateID, kind) ==
    [ TerraformAddress |-> addr, StateID |-> stateID, Kind |-> kind,
      Category |-> "", Command |-> EmptyString, LiveID |-> EmptyString,
      ExistsInAWS |-> FALSE, Error |-> FALSE ]

\* return ResourceStatus{TerraformAddress, Error, Category: "ERROR", Message, Kind}
ErrorReturn(addr, kind) ==
    [ NewStatus(addr, EmptyString, kind) EXCEPT !.Category = "ERROR", !.Error = TRUE ]

StateRmCommandMutant(addr) == EmptyString
StateRmCommand(addr) == << "terraform", " ", "state", " ", "rm", " " >> \o addr
ImportCommand(addr, liveID) ==
    << "terraform", " ", "import", " " >> \o addr \o << " " >> \o liveID

(***************************************************************************)
(* The region fast path of processResourceInstance.                       *)
(***************************************************************************)
ArnAttrOrder ==
    << "arn", "load_balancer_arn", "target_group_arn", "rule_arn", "certificate_arn",
       "instance_profile_arn", "role_arn", "function_arn", "distribution_arn",
       "autoscaling_group_arn", "policy_arn", "alarm_arn", "bucket_arn",
       "service_arn", "task_definition_arn" >>

\* The if / else-if chain: the first attribute of the order that is a string.
RECURSIVE FirstStringFrom(_, _)
FirstStringFrom(attrs, i) ==
    IF i > Len(ArnAttrOrder) THEN EmptyString
    ELSE IF IsString(attrs[ArnAttrOrder[i]]) THEN attrs[ArnAttrOrder[i]].s
    ELSE FirstStringFrom(attrs, i + 1)

arnInStateMutant(attrs) ==
    IF IsString(attrs["role_arn"]) THEN attrs["role_arn"].s ELSE FirstStringFrom(attrs, 1)
arnInState(attrs) == FirstStringFrom(attrs, 1)

RegionMismatchMutant(attrs, currentFlagRegion) == FALSE
RegionMismatch(attrs, currentFlagRegion) ==
    /\ arnInState(attrs) # EmptyString
    /\ extractRegionFromARN(arnInState(attrs)) # EmptyString
    /\ extractRegionFromARN(arnInState(attrs)) # currentFlagRegion

(***************************************************************************)
(* The switch on resource.Type.  Most kinds follow one of three patterns;  *)
(* the table gives, per kind, the pattern and the attributes it reads.     *)
(*   "all": every attribute is a non-empty string                          *)
(*   "any": at least one attribute is a non-empty string                   *)
(***************************************************************************)
KindTable ==
    { [type |-> "aws_s3_bucket", rule |-> "all", attrs |-> << "bucket" >>],
      [type |-> "aws_cloudwatch_log_group", rule |-> "all", attrs |-> << "name" >>],
      [type |-> "aws_key_pair", rule |-> "all", attrs |-> << "key_name" >>],
      [type |-> "aws_security_group", rule |-> "any", attrs |-> << "id", "name" >>],
      [type |-> "aws_route53_zone", rule |-> "any", attrs |-> << "zone_id", "name" >>],
      [type |-> "aws_lb", rule |-> "any", attrs |-> << "arn", "name" >>],
      [type |-> "aws_lb_listener", rule |-> "any", attrs |-> << "arn", "load_balancer_arn" >>],
      [type |-> "aws_lb_target_group", rule |-> "any", attrs |-> << "arn", "name" >>],
      [type |-> "aws_lb_listener_rule", rule |-> "any", attrs |-> << "arn", "listener_arn" >>],
      [type |-> "aws_acm_certificate", rule |-> "all", attrs |-> << "arn" >>],
      [type |-> "aws_acm_certificate_validation", rule |-> "all", attrs |-> << "certificate_arn" >>],
      [type |-> "aws_route53_record", rule |-> "all", attrs |-> << "zone_id", "name", "type" >>],
      [type |-> "aws_ami", rule |-> "all", attrs |-> << "id" >>],
      [type |-> "aws_ssm_parameter", rule |-> "all", attrs |-> << "name" >>],
      [type |-> "aws_secretsmanager_secret", rule |-> "all", attrs |-> << "id" >>],
      [type |-> "aws_secretsmanager_secret_version", rule |-> "all", attrs |-> << "secret_id", "version_id" >>],
      [type |-> "aws_eip", rule |-> "all", attrs |-> << "allocation_id" >>],
      [type |-> "aws_internet_gateway", rule |-> "all", attrs |-> << "id" >>],
      [type |-> "aws_nat_gateway", rule |-> "all", attrs |-> << "id" >>],
      [type |-> "aws_route_table", rule |-> "all", attrs |-> << "id" >>],
      [type |-> "aws_route_table_association", rule |-> "all", attrs |-> << "id" >>],
      [type |-> "aws_subnet", rule |-> "all", attrs |-> << "id" >>],
      [type |-> "aws_vpc", rule |-> "all", attrs |-> << "id" >>],
      [type |-> "aws_instance", rule |-> "all", attrs |-> << "id" >>],
      [type |-> "aws_launch_template", rule |-> "any", attrs |-> << "id", "name" >>],
      [type |-> "aws_autoscaling_group", rule |-> "all", attrs |-> << "name" >>],
      [type |-> "aws_cloudwatch_metric_alarm", rule |-> "all", attrs |-> << "alarm_name" >>],
      [type |-> "aws_iam_instance_profile", rule |-> "all", attrs |-> << "name" >>],
      [type |-> "aws_iam_role", rule |-> "all", attrs |-> << "name" >>],
      [type |-> "aws_iam_role_policy", rule |-> "all", attrs |-> << "role", "name" >>],
      [type |-> "aws_lambda_function", rule |-> "all", attrs |-> << "function_name" >>],
      [type |-> "aws_lambda_permission", rule |-> "all", attrs |-> << "function_name", "statement_id" >>],
      [type |-> "aws_cloudfront_distribution", rule |-> "all", attrs |-> << "id" >>],
      [type |-> "aws_cloudfront_origin_access_identity", rule |-> "all", attrs |-> << "id" >>],
      [type |-> "aws_s3_bucket_policy", rule |-> "all", attrs |-> << "bucket" >>],
      [type |-> "aws_s3_bucket_acl", rule |-> "all", attrs |-> << "bucket" >>],
      [type |-> "aws_s3_bucket_ownership_controls", rule |-> "all", attrs |-> << "bucket" >>],
      [type |-> "aws_s3_bucket_public_access_block", rule |-> "all", attrs |-> << "bucket" >>],
      [type |-> "aws_s3_bucket_website_configuration", rule |-> "all", attrs |-> << "bucket" >>],
      [type |-> "aws_s3_bucket_cors_configuration", rule |-> "all", attrs |-> << "bucket" >>],
      [type |-> "aws_s3_bucket_notification", rule |-> "all", attrs |-> << "bucket" >>],
      [type |-> "aws_s3_object", rule |-> "all", attrs |-> << "bucket", "key" >>],
      [type |-> "aws_lb_listener_certificate", rule |-> "all", attrs |-> << "listener_arn", "certificate_arn" >>] }

TableKinds == { k.type : k \in KindTable }

InfoKinds ==
    { "aws_caller_identity", "aws_iam_policy_document", "archive_file", "local_file",
      "random_password" }

\* The kinds whose attributes are read with %v, whatever their JSON type.
AnyTypeKinds ==
    { [type |-> "aws_ecs_cluster", attrs |-> << "name" >>],
      [type |-> "aws_ecs_service", attrs |-> << "cluster", "name" >>],
      [type |-> "aws_ecs_task_definition", attrs |-> << "arn" >>] }

\* Whether the lookups of a table kind find what the verifier needs.
HasLookupKey(type, attrs) ==
    LET k == CHOOSE e \in KindTable : e.type = type
        found(a) == AsString(attrs[a]) # EmptyString
    IN  IF k.rule = "all"
        THEN \A i \in 1..Len(k.attrs) : found(k.attrs[i])
        ELSE \E i \in 1..Len(k.attrs) : found(k.attrs[i])

\* A step of processResourceInstance ends in one of three ways: it returns a
\* status ("return"), it calls the verifier of the kind ("verify"), or it sets
\* err without calling anything and goes on to the final classification
\* ("missing").
Return(status) == [to |-> "return", status |-> status]
Verify(status) == [to |-> "verify", status |-> status]
Missing(status) == [to |-> "missing", status |-> status]

ecsCluster(status, attrs) ==
    LET val == IF MissingOrNil(attrs["name"]) THEN attrs["cluster_name"] ELSE attrs["name"]
    IN  IF MissingOrNil(val) \/ SprintV(val) = EmptyString
        THEN Return(ErrorReturn(status.TerraformAddress, status.Kind))
        ELSE Verify(status)

ecsService(status, attrs) ==
    IF \/ MissingOrNil(attrs["cluster"]) \/ SprintV(attrs["cluster"]) = EmptyString
       \/ MissingOrNil(attrs["name"]) \/ SprintV(attrs["name"]) = EmptyString
    THEN Return(ErrorReturn(status.TerraformAddress, status.Kind))
    ELSE Verify(status)

ecsTaskDefinition(status, attrs) ==
    IF MissingOrNil(attrs["arn"]) \/ SprintV(attrs["arn"]) = EmptyString
    THEN Return(ErrorReturn(status.TerraformAddress, status.Kind))
    ELSE Verify(status)

\* case "aws_region": decided from the state alone, no verifier
awsRegion(status, attrs, currentFlagRegion) ==
    LET val == attrs["name"]
        regionInState == SprintV(val)
    IN  IF MissingOrNil(val) \/ regionInState = EmptyString
        THEN Return([status EXCEPT !.Category = "ERROR"])
        ELSE IF regionInState = currentFlagRegion
        THEN Return([status EXCEPT !.Category = "OK", !.LiveID = regionInState,
                                   !.ExistsInAWS = TRUE])
        ELSE Return([status EXCEPT !.Category = "REGION_MISMATCH",
                                   !.Command = StateRmCommand(status.TerraformAddress)])

awsRoute(status, attrs) ==
    IF /\ AsString(attrs["route_table_id"]) # EmptyString
       /\ \/ AsString(attrs["destination_cidr_block"]) # EmptyString
          \/ ~MissingOrNil(attrs["destination_ipv6_cidr_block"])
    THEN Verify(status)
    ELSE Missing(status)

awsAutoscalingPolicy(status, attrs) ==
    IF \/ AsString(attrs["arn"]) # EmptyString
       \/ /\ AsString(attrs["name"]) # EmptyString
          /\ AsString(attrs["autoscaling_group_name"]) # EmptyString
    THEN Verify(status)
    ELSE Missing(status)

awsSecurityGroupRule(status, attrs) ==
    IF AsString(attrs["security_group_rule_id"]) # EmptyString
    THEN Verify(status)
    ELSE Return([status EXCEPT !.Category = "WARNING"])

\* default: a kind without a case of its own
UnsupportedMutant(status) == Verify(status)
Unsupported(status) == Return([status EXCEPT !.Category = "WARNING"])

\* switch resource.Type { ... }
KindSwitch(type, status, attrs, currentFlagRegion) ==
    CASE type \in TableKinds ->
            IF HasLookupKey(type, attrs) THEN Verify(status) ELSE Missing(status)
      [] type \in InfoKinds -> Return([status EXCEPT !.Category = "INFO"])
      [] type = "aws_security_group_rule" -> awsSecurityGroupRule(status, attrs)
      [] type = "aws_ecs_cluster" -> ecsCluster(status, attrs)
      [] type = "aws_region" -> awsRegion(status, attrs, currentFlagRegion)
      [] type = "aws_route" -> awsRoute(status, attrs)
      [] type = "aws_autoscaling_policy" -> awsAutoscalingPolicy(status, attrs)
      [] type = "aws_ecs_service" -> ecsService(status, attrs)
      [] type = "aws_ecs_task_definition" -> ecsTaskDefinition(status, attrs)
      [] OTHER -> Unsupported(status)

\* processResourceInstance up to the point where it returns or calls a verifier.
BeforeVerifierMutant(resource, instance, currentFlagRegion) ==
    LET addr == tfAddress(resource, instance)
        attrs == Attributes(instance)
        status == NewStatus(addr, AsString(attrs["id"]), resource.Mode)
        switched == KindSwitch(resource.Type, status, attrs, currentFlagRegion)
    IN  IF UnmarshalFails(instance) THEN Return(ErrorReturn(addr, resource.Mode))
        ELSE IF switched.to = "return" THEN switched
        ELSE IF RegionMismatch(attrs, currentFlagRegion)
        THEN Return([status EXCEPT !.Category = "REGION_MISMATCH",
                                   !.Command = StateRmCommand(addr)])
        ELSE switched
BeforeVerifier(resource, instance, currentFlagRegion) ==
    LET addr == tfAddress(resource, instance)
        attrs == Attributes(instance)
        stateID == AsString(attrs["id"])
        status == NewStatus(addr, stateID, resource.Mode)
    IN  IF UnmarshalFails(instance) THEN Return(ErrorReturn(addr, resource.Mode))
        ELSE IF RegionMismatch(attrs, currentFlagRegion)
        THEN Return([status EXCEPT !.Category = "REGION_MISMATCH",
                                   !.Command = StateRmCommand(addr)])
        ELSE KindSwitch(resource.Type, status, attrs, currentFlagRegion)

\* What a verify* function hands back: liveID, exists, err.
Outcome(liveID, exists, err) == [liveID |-> liveID, exists |-> exists, err |-> err]

\* The lookup failed before any verifier was called: only err is set.
NoLookupKey == Outcome(EmptyString, FALSE, TRUE)

\* The tail of processResourceInstance: the category from liveID, exists, err.
ClassifyMutant(status, outcome) ==
    LET s == [status EXCEPT !.LiveID = outcome.liveID, !.ExistsInAWS = outcome.exists,
                            !.Error = outcome.err]
    IN  IF outcome.exists
        THEN IF EqualFold(s.StateID, outcome.liveID) \/ Len(s.StateID) = 0
             THEN [s EXCEPT !.Category = "OK"]
             ELSE [s EXCEPT !.Category = "POTENTIAL_IMPORT",
                            !.Command = ImportCommand(s.TerraformAddress, outcome.liveID)]
        ELSE IF outcome.err THEN [s EXCEPT !.Category = "ERROR"]
        ELSE [s EXCEPT !.Category = "DANGEROUS",
                       !.Command = StateRmCommand(s.TerraformAddress)]
Classify(status, outcome) ==
    LET s == [status EXCEPT !.LiveID = outcome.liveID, !.ExistsInAWS = outcome.exists,
                            !.Error = outcome.err]
    IN  IF outcome.err THEN [s EXCEPT !.Category = "ERROR"]
        ELSE IF outcome.exists
        THEN IF EqualFold(s.StateID, outcome.liveID) \/ Len(s.StateID) = 0
             THEN [s EXCEPT !.Category = "OK"]
             ELSE [s EXCEPT !.Category = "POTENTIAL_IMPORT",
                            !.Command = ImportCommand(s.TerraformAddress, outcome.liveID)]
        ELSE [s EXCEPT !.Category = "DANGEROUS",
                       !.Command = StateRmCommand(s.TerraformAddress)]

\* The goroutine of processResources overwrites Kind after the call.
KindOf(resource) == IF resource.Mode = "data" THEN "data" ELSE "resource"

(***************************************************************************)
(* processResources: one goroutine per instance, a channel buffered to     *)
(* concurrency, a goroutine that closes the channel once the WaitGroup is  *)
(* at zero, and the loop of the caller that receives until the channel is  *)
(* closed and empty.                                                       *)
(***************************************************************************)
\* The instances in the order of the two nested loops, each with its resource.
RECURSIVE WorkItems(_)
WorkItems(resources) ==
    IF Len(resources) = 0 THEN << >>
    ELSE [ j \in 1..Len(Head(resources).Instances) |->
             [resource |-> Head(resources), instance |-> Head(resources).Instances[j]] ]
         \o WorkItems(Tail(resources))

NumItems == Len(WorkItems(tfState.Resources))

BucketNames ==
    << "InfoResults", "OkResults", "WarningResults", "ErrorResults",
       "PotentialImportResults", "DangerousResults", "RegionMismatchResults" >>

\* results := &categorizedResults{}
EmptyResults ==
    [ InfoResults |-> << >>, OkResults |-> << >>, WarningResults |-> << >>,
      ErrorResults |-> << >>, PotentialImportResults |-> << >>,
      DangerousResults |-> << >>, RegionMismatchResults |-> << >>,
      RunCommands |-> << >>, CommandExecutionLogs |-> << >>, ApplicationError |-> FALSE ]

IdleWorker == [st |-> "unborn", status |-> NewStatus(EmptyString, EmptyString, ""),
               outcome |-> NoLookupKey]

\* for ... { wg.Add(1); go func(res, inst) {...}(resource, instance) }
SpawnWorker ==
    /\ pc = "spawn"
    /\ spawned < NumItems
    /\ spawned' = spawned + 1
    /\ workers' = [workers EXCEPT ![spawned + 1].st = "started"]
    /\ UNCHANGED <<config, fs, s3, pc, tfState, calls, resultsChan, results, run,
                   cmdIdx, events>>

\* go func() { wg.Wait(); close(resultsChan) }() and the entry into the range loop
StartCloser ==
    /\ pc = "spawn"
    /\ spawned = NumItems
    /\ pc' = "collect"
    /\ UNCHANGED <<config, fs, s3, tfState, spawned, workers, calls, resultsChan,
                   results, run, cmdIdx, events>>

\* The goroutine runs processResourceInstance up to its return or to the call
\* of a verifier.
WorkerRun(i) ==
    /\ workers[i].st = "started"
    /\ LET item == WorkItems(tfState.Resources)[i]
           step == BeforeVerifier(item.resource, item.instance, config.AWSRegion)
       IN  CASE step.to = "return" ->
                   /\ workers' = [workers EXCEPT ![i].st = "sending",
                                                 ![i].status = step.status]
                   /\ calls' = calls
             [] step.to = "missing" ->
                   /\ workers' = [workers EXCEPT ![i].st = "sending",
                                     ![i].status = Classify(step.status, NoLookupKey)]
                   /\ calls' = calls
             [] OTHER ->
                   /\ workers' = [workers EXCEPT ![i].st = "calling",
                                                 ![i].status = step.status]
                   /\ calls' = [calls EXCEPT ![i] = calls[i] + 1]
    /\ UNCHANGED <<config, fs, s3, pc, tfState, spawned, resultsChan, results, run,
                   cmdIdx, events>>

\* What the inventory may answer.
LiveIDs == { << "vpc-1" >>, << "VPC-1" >>, << "vpc-9" >> }

Outcomes ==
    { Outcome(EmptyString, FALSE, TRUE), Outcome(EmptyString, FALSE, FALSE) }
    \cup { Outcome(id, TRUE, FALSE) : id \in LiveIDs }
    \cup { Outcome(<< "vpc-9" >>, TRUE, TRUE) }

\* The verifier returns and processResourceInstance classifies its answer.
WorkerVerifyReturn(i) ==
    /\ workers[i].st = "calling"
    /\ \E outcome \in Outcomes :
          workers' = [workers EXCEPT ![i].st = "sending", ![i].outcome = outcome,
                                     ![i].status = Classify(workers[i].status, outcome)]
    /\ UNCHANGED <<config, fs, s3, pc, tfState, spawned, calls, resultsChan, results,
                   run, cmdIdx, events>>

\* make(chan ResourceStatus, concurrency): a send goes through while the
\* buffer holds fewer than concurrency results.
\* status.Kind = ...; resultsChan <- status   (blocks while the buffer is full)
ChannelHasRoomMutant == Len(resultsChan.queue) < config.Concurrency - 1
ChannelHasRoom == Len(resultsChan.queue) < config.Concurrency

WorkerSend(i) ==
    /\ workers[i].st = "sending"
    /\ ChannelHasRoom
    /\ ~resultsChan.closed
    /\ LET item == WorkItems(tfState.Resources)[i]
           status == [workers[i].status EXCEPT !.Kind = KindOf(item.resource)]
       IN  /\ resultsChan' = [resultsChan EXCEPT
                                 !.queue = Append(@, [src |-> i, status |-> status])]
           /\ workers' = [workers EXCEPT ![i].st = "sent", ![i].status = status]
    /\ UNCHANGED <<config, fs, s3, pc, tfState, spawned, calls, results, run, cmdIdx,
                   events>>

\* defer wg.Done()
WorkerDone(i) ==
    /\ workers[i].st = "sent"
    /\ workers' = [workers EXCEPT ![i].st = "done"]
    /\ UNCHANGED <<config, fs, s3, pc, tfState, spawned, calls, resultsChan, results,
                   run, cmdIdx, events>>

\* wg.Wait() returns: every Add has been matched by a Done.
WaitGroupZeroMutant == TRUE
WaitGroupZero == \A i \in 1..spawned : workers[i].st = "done"

\* close(resultsChan), by the goroutine started after the loop
CloseChannel ==
    /\ pc = "collect"
    /\ ~resultsChan.closed
    /\ WaitGroupZero
    /\ resultsChan' = [resultsChan EXCEPT !.closed = TRUE]
    /\ UNCHANGED <<config, fs, s3, pc, tfState, spawned, workers, calls, results, run,
                   cmdIdx, events>>

\* The bucket the switch on status.Category appends to; the switch has no
\* default, so a status of any other category is dropped.
BucketOfMutant(category) ==
    CASE category = "INFO" -> "InfoResults"
      [] category = "OK" -> "OkResults"
      [] category = "WARNING" -> "WarningResults"
      [] category = "POTENTIAL_IMPORT" -> "PotentialImportResults"
      [] category = "DANGEROUS" -> "DangerousResults"
      [] category = "REGION_MISMATCH" -> "RegionMismatchResults"
      [] OTHER -> "none"
BucketOf(category) ==
    CASE category = "INFO" -> "InfoResults"
      [] category = "OK" -> "OkResults"
      [] category = "WARNING" -> "WarningResults"
      [] category = "ERROR" -> "ErrorResults"
      [] category = "POTENTIAL_IMPORT" -> "PotentialImportResults"
      [] category = "DANGEROUS" -> "DangerousResults"
      [] category = "REGION_MISMATCH" -> "RegionMismatchResults"
      [] OTHER -> "none"

CommandCategories == { "POTENTIAL_IMPORT", "DANGEROUS", "REGION_MISMATCH" }

\* One iteration of  for status := range resultsChan { switch status.Category ... }
Collect(res, delivery) ==
    LET status == delivery.status
        bucket == BucketOf(status.Category)
        filed == IF bucket = "none" THEN res
                 ELSE [res EXCEPT ![bucket] = Append(@, delivery)]
    IN  IF status.Category \in CommandCategories /\ status.Command # EmptyString
        THEN [filed EXCEPT !.RunCommands = Append(@, status.Command)]
        ELSE filed

CollectorReceive ==
    /\ pc = "collect"
    /\ Len(resultsChan.queue) > 0
    /\ results' = Collect(results, Head(resultsChan.queue))
    /\ resultsChan' = [resultsChan EXCEPT !.queue = Tail(@)]
    /\ UNCHANGED <<config, fs, s3, pc, tfState, spawned, workers, calls, run, cmdIdx,
                   events>>

\* The range loop ends when the channel is closed and drained.
RangeEndsMutant == Len(resultsChan.queue) = 0
RangeEnds == resultsChan.closed /\ Len(resultsChan.queue) = 0

\* return results; globalResults = results
ProcessResourcesReturn ==
    /\ pc = "collect"
    /\ RangeEnds
    /\ pc' = "sort"
    /\ UNCHANGED <<config, fs, s3, tfState, spawned, workers, calls, resultsChan,
                   results, run, cmdIdx, events>>

(***************************************************************************)
(* sortResults.  sort.Slice only ever compares addresses, so results of    *)
(* equal address leave it in an order that depends on the order they came  *)
(* in; for the short slices of the model Go sorts by insertion, which      *)
(* keeps them in arrival order.                                            *)
(***************************************************************************)
\* The elements to sort, each with the string it is compared by.
ByAddress(bucket) ==
    [i \in 1..Len(bucket) |-> [key |-> bucket[i].status.TerraformAddress, val |-> bucket[i]]]
ByCommand(logs) == [i \in 1..Len(logs) |-> [key |-> logs[i].Command, val |-> logs[i]]]
ByItself(strings) == [i \in 1..Len(strings) |-> [key |-> strings[i], val |-> strings[i]]]

RECURSIVE Insert(_, _)
Insert(x, sorted) ==
    IF Len(sorted) = 0 THEN << x >>
    ELSE IF StringLess(x.key, sorted[Len(sorted)].key)
         THEN Append(Insert(x, SubSeq(sorted, 1, Len(sorted) - 1)), sorted[Len(sorted)])
         ELSE Append(sorted, x)

RECURSIVE InsertionSort(_)
InsertionSort(seq) ==
    IF Len(seq) = 0 THEN << >>
    ELSE Insert(seq[Len(seq)], InsertionSort(SubSeq(seq, 1, Len(seq) - 1)))

Sorted(keyed) == LET out == InsertionSort(keyed) IN [i \in 1..Len(out) |-> out[i].val]

sortResultsMutant(res) == res
sortResults(res) ==
    [ InfoResults |-> Sorted(ByAddress(res.InfoResults)),
      OkResults |-> Sorted(ByAddress(res.OkResults)),
      WarningResults |-> Sorted(ByAddress(res.WarningResults)),
      ErrorResults |-> Sorted(ByAddress(res.ErrorResults)),
      PotentialImportResults |-> Sorted(ByAddress(res.PotentialImportResults)),
      DangerousResults |-> Sorted(ByAddress(res.DangerousResults)),
      RegionMismatchResults |-> Sorted(ByAddress(res.RegionMismatchResults)),
      RunCommands |-> Sorted(ByItself(res.RunCommands)),
      CommandExecutionLogs |-> Sorted(ByCommand(res.CommandExecutionLogs)),
      ApplicationError |-> res.ApplicationError ]

SortResults ==
    /\ pc = "sort"
    /\ results' = sortResults(results)
    /\ pc' = "exec"
    /\ UNCHANGED <<config, fs, s3, tfState, spawned, workers, calls, resultsChan, run,
                   cmdIdx, events>>

(***************************************************************************)
(* The bytes of a state file, as far as Read looks at them: the white      *)
(* space they start with, the first byte after it ("" when there is none,  *)
(* "x" for a byte that is neither white space nor a bracket), what         *)
(* json.Unmarshal makes of the whole ("syntax": a syntax error, "type": a  *)
(* value of the wrong JSON type, "ok"), the version attribute ("absent",   *)
(* "null" or a number) and whether the document decodes as StateFileV4.    *)
(***************************************************************************)
Source(lead, first, json, version, v4) ==
    [lead |-> lead, first |-> first, json |-> json, version |-> version, v4 |-> v4]

\* A well-formed document of format version 4.
ValidV4 == Source(<< >>, "{", "ok", "4", TRUE)

\* The bytes up to and including the first one that is not white space.
Bytes(src) == src.lead \o (IF src.first = "" THEN << >> ELSE << src.first >>)

Whitespace == { " ", "\t", "\n", "\r" }

\* looksLikeVersion0: the loop over the bytes
RECURSIVE LooksAcc(_)
LooksAcc(bytes) ==
    IF Len(bytes) = 0 THEN FALSE
    ELSE IF Head(bytes) \in Whitespace THEN LooksAcc(Tail(bytes))
    ELSE IF Head(bytes) \in { "{", "[" } THEN FALSE
    ELSE TRUE

looksLikeVersion0Mutant(src) == Len(Bytes(src)) > 0 /\ Head(Bytes(src)) \notin { "{", "[" }
looksLikeVersion0(src) == LooksAcc(Bytes(src))

\* What Read and the functions under it return: a state or an error.
ReadError(err) == [err |-> err, state |-> FALSE, Resources |-> << >>]
ReadState(resources) == [err |-> "", state |-> TRUE, Resources |-> resources]

\* sniffJSONStateVersion: the version, or the error
sniffJSONStateVersion(src) ==
    IF src.json = "syntax" THEN [err |-> "JSONSyntax", version |-> "0"]
    ELSE IF src.json = "type" THEN [err |-> "JSONType", version |-> "0"]
    ELSE IF src.version \in { "absent", "null" } THEN [err |-> "NoVersion", version |-> "0"]
    ELSE [err |-> "", version |-> src.version]

\* readStateV4: json.Unmarshal into StateFileV4 and the copy to TFStateFile
readStateV4(src, resources) ==
    IF src.v4 THEN ReadState(resources) ELSE ReadError("ParseV4")

\* The errors of the format versions that were JSON and are no longer read.
OldVersionError ==
    [v \in { "0", "1", "2", "3" } |->
        CASE v = "0" -> "VersionZero" [] v = "1" -> "Version1NotSupported"
          [] v = "2" -> "Version2NotSupported" [] OTHER -> "Version3NotSupported"]

\* readState: the legacy check, the version, the switch on it
readStateMutant(src, resources) ==
    LET sniff == sniffJSONStateVersion(src)
    IN  IF looksLikeVersion0(src) THEN ReadError("LegacyBinaryFormat")
        ELSE IF sniff.err # "" THEN ReadError(sniff.err)
        ELSE IF sniff.version \in { "0", "1", "2" }
        THEN ReadError(OldVersionError[sniff.version])
        ELSE readStateV4(src, resources)
readState(src, resources) ==
    LET sniff == sniffJSONStateVersion(src)
    IN  IF looksLikeVersion0(src) THEN ReadError("LegacyBinaryFormat")
        ELSE IF sniff.err # "" THEN ReadError(sniff.err)
        ELSE CASE sniff.version \in { "0", "1", "2", "3" } ->
                     ReadError(OldVersionError[sniff.version])
               [] sniff.version = "4" -> readStateV4(src, resources)
               [] OTHER -> ReadError("UnsupportedVersion")

\* Read(r) for the open file: src is what io.ReadAll gives.
Read(file) ==
    IF Len(Bytes(file.src)) = 0 THEN ReadError("ErrNoState")
    ELSE readState(file.src, file.Resources)

(***************************************************************************)
(* Files.  A state file is its bytes, the snapshot they hold and a         *)
(* revision that every successful state-altering command advances.         *)
(* BackupsDir either accepts writes or refuses all of them, except that    *)
(* the os.WriteFile of a .sha256 file can fail where the artifact beside   *)
(* it was written (sidecars); a file can be read when it exists.  written  *)
(* lists, in order, the paths under BackupsDir the run wrote to, each with *)
(* whether it held a file before.                                          *)
(***************************************************************************)
NoFile == [exists |-> FALSE, rev |-> 0, Resources |-> << >>, src |-> ValidV4]
StateFile(resources, rev) ==
    [exists |-> TRUE, rev |-> rev, Resources |-> resources, src |-> ValidV4]

\* The empty string, as a hash that is not known.
NoHash == << >>

\* calculateFileSHA256: the digest of the bytes, "" (with an error) when the
\* file cannot be opened.
calculateFileSHA256(file) ==
    IF file.exists THEN << "sha256", file.Resources, file.rev, file.src >> ELSE NoHash

\* copyFile(src, dst): os.Open(src), os.Create(dst), io.Copy
copyFileOK(src, writable) == src.exists /\ writable

Event(op, ok) == [op |-> op, ok |-> ok]

\* Whether a path under BackupsDir holds a file.
Holds(files, path) ==
    CASE path = "original" -> files.original.exists
      [] path = "original.sha256" -> files.originalSha # NoHash
      [] path = "new" -> files.new.exists
      [] path = "new.sha256" -> files.newSha # NoHash
      [] path = "report.md" -> files.reportMD
      [] path = "report.md.sha256" -> files.reportMDSha
      [] path = "report.json" -> files.reportJSON
      [] OTHER -> files.reportJSONSha

\* The calendar months time.Now() can fall in during a run.
Months == << "2026/10", "2026/11" >>

\* filepath.Base(config.StateFilePath), or the name part of config.S3Key
globalOriginalBaseFileName ==
    IF config.IsS3State THEN << "key", ".tfstate" >> ELSE << "Local", ".txt", ".TFSTATE" >>

\* createBackupPath, with the month time.Now() is in at the call and whether
\* os.MkdirAll makes the directory of the run.  strings.ToLower acts on the
\* atoms that have capitals; the atoms that begin with a dot are the
\* extensions filepath.Ext finds.
createBackupPath(baseDir, originalFileName, prefix, timestamp, finalExtension, yearMonth, mkdirOK) ==
    LET ToLower(s) ==
            [k \in 1..Len(s) |->
                CASE s[k] = "Local" -> "local"
                  [] s[k] = ".TFSTATE" -> ".tfstate"
                  [] OTHER -> s[k]]
        HasSuffix(s, suffix) ==
            /\ Len(s) >= Len(suffix)
            /\ SubSeq(s, Len(s) - Len(suffix) + 1, Len(s)) = suffix
        TrimSuffix(s, suffix) ==
            IF HasSuffix(s, suffix) THEN SubSeq(s, 1, Len(s) - Len(suffix)) ELSE s
        Ext(name) ==
            IF Len(name) > 0
               /\ name[Len(name)] \in { ".tfstate", ".TFSTATE", ".txt", ".md", ".json" }
            THEN << name[Len(name)] >> ELSE EmptyString
        base == originalFileName
        nameWithoutTfstateExt == TrimSuffix(ToLower(base), << ".tfstate" >>)
        stripped == TrimSuffix(nameWithoutTfstateExt, Ext(nameWithoutTfstateExt))
        cleanBaseName ==
            IF stripped = EmptyString /\ HasSuffix(ToLower(base), << ".tfstate" >>)
            THEN TrimSuffix(base, << ".tfstate" >>)
            ELSE IF stripped = EmptyString THEN base
            ELSE stripped
        dir == IF mkdirOK THEN baseDir \o << "/", yearMonth, "/" >> \o timestamp
               ELSE baseDir
    IN  dir \o << "/", prefix, "." >> \o cleanBaseName \o << finalExtension >>

\* config.BackupsDir and globalTimestamp, the second main was started in,
\* are the same at every call.
BackupPath(prefix, extension, yearMonth, mkdirOK) ==
    createBackupPath(<< "backups" >>, globalOriginalBaseFileName, prefix,
                     << "02-15-04-05" >>, extension, yearMonth, mkdirOK)

\* The path the run writes an artifact or its .sha256 file to.
WritePath(files, path, yearMonth) ==
    LET at(prefix, extension) == BackupPath(prefix, extension, yearMonth, files.writable)
    IN  CASE path = "original" -> at("original", ".tfstate")
          [] path = "original.sha256" -> at("original", ".tfstate") \o << ".sha256" >>
          [] path = "new" -> at("new", ".tfstate")
          [] path = "new.sha256" -> at("new", ".tfstate") \o << ".sha256" >>
          [] path = "report.md" -> at("report", ".md")
          [] path = "report.md.sha256" -> at("report", ".md") \o << ".sha256" >>
          [] path = "report.json" -> at("report", ".json")
          [] OTHER -> at("report", ".json") \o << ".sha256" >>

\* os.WriteFile(path, hash): the write of a .sha256 file; a failure is logged
\* as a WARNING and nothing is written.
Sidecar(files, path) == IF files.sidecars THEN << path >> ELSE << >>

\* os.Create and os.WriteFile open with O_CREATE|O_TRUNC: they write to the
\* path whether or not it holds a file.  The list of writes after writes to
\* paths, which are different paths, in the month yearMonth; the files an
\* earlier run left are in the directory of the first month.
Written(files, paths, yearMonth) ==
    files.written \o
        [k \in 1..Len(paths) |->
            [path |-> paths[k],
             over |-> Holds(files, paths[k]) /\ yearMonth = Months[1],
             at |-> WritePath(files, paths[k], yearMonth)]]

\* The fields of run: the locals of runApplication and the globals main keeps
\* for its recovery.
InitialRun ==
    [ localPathSet |-> FALSE, originalStateFileHash |-> NoHash,
      stateFileModified |-> FALSE, stateAltering |-> FALSE, firstError |-> FALSE,
      newStateFileHash |-> NoHash, contentChanged |-> FALSE, logs |-> << >>,
      readError |-> "", exit |-> "running", 
      summary |-> [ OriginalPath |-> EmptyString, NewPath |-> EmptyString,
                    ReportPath |-> EmptyString, JsonReportPath |-> EmptyString ] ]

\* NewAWSClient and os.MkdirAll(config.BackupsDir); an error is returned to
\* main, which panics with it.
InitComponents ==
    /\ pc = "init"
    /\ \E ok \in BOOLEAN : pc' = IF ok THEN "setup" ELSE "recover"
    /\ UNCHANGED <<config, fs, s3, tfState, spawned, workers, calls, resultsChan,
                   results, run, cmdIdx, events>>

\* setupStateFileForProcessing, once the state file is at its local path:
\* the copy to the original backup, its hash and the .sha256 beside it.
BackupOriginalMutant(files) ==
    IF copyFileOK(files.state, files.writable)
    THEN [files EXCEPT !.original = files.state,
                       !.written = Written(files, << "original" >>, Months[1])]
    ELSE files
BackupOriginal(files) ==
    IF copyFileOK(files.state, files.writable)
    THEN [files EXCEPT !.original = files.state,
                       !.originalSha = IF files.sidecars
                                       THEN calculateFileSHA256(files.state) ELSE @,
                       !.written = Written(files, << "original" >>
                                                  \o Sidecar(files, "original.sha256"),
                                               Months[1])]
    ELSE files

SetupStateFileMutant ==
    /\ pc = "setup"
    /\ \E downloaded \in BOOLEAN :
          IF config.IsS3State /\ ~downloaded
          THEN /\ pc' = "recover"
               /\ UNCHANGED <<fs, run>>
          ELSE /\ fs' = IF config.IsS3State THEN [fs EXCEPT !.state = s3.object] ELSE fs
               /\ run' = [run EXCEPT !.localPathSet = TRUE]
               /\ pc' = "read"
    /\ UNCHANGED <<config, s3, tfState, spawned, workers, calls, resultsChan, results,
                   cmdIdx, events>>
SetupStateFile ==
    /\ pc = "setup"
    /\ \E downloaded \in BOOLEAN :
          IF config.IsS3State /\ ~downloaded
          THEN \* os.Create made the temporary file, the download failed
               /\ pc' = "recover"
               /\ UNCHANGED <<fs, run, events>>
          ELSE LET local == IF config.IsS3State
                            THEN [fs EXCEPT !.state = s3.object] ELSE fs
                   copied == copyFileOK(local.state, local.writable)
               IN  /\ fs' = BackupOriginal(local)
                   /\ run' = [run EXCEPT !.localPathSet = TRUE,
                                 !.originalStateFileHash =
                                     IF copied
                                     THEN calculateFileSHA256(BackupOriginal(local).original)
                                     ELSE NoHash]
                   /\ events' = events \o << Event("copyOriginal", copied) >>
                                  \o (IF copied THEN << Event("hashOriginal", TRUE) >>
                                      ELSE << >>)
                   /\ pc' = "read"
    /\ UNCHANGED <<config, s3, tfState, spawned, workers, calls, resultsChan, results,
                   cmdIdx>>

\* openAndReadStateFile: log.Fatalf when the file cannot be opened or Read
\* returns an error, which ends the process at once, without main's recovery
\* and without the deferred removal of the temporary file.
OpenAndReadStateFile ==
    /\ pc = "read"
    /\ LET read == IF fs.state.exists THEN Read(fs.state) ELSE ReadError("Open")
       IN  IF read.state
           THEN /\ tfState' = [Resources |-> read.Resources]
                /\ workers' = [i \in 1..Len(WorkItems(read.Resources)) |-> IdleWorker]
                /\ calls' = [i \in 1..Len(WorkItems(read.Resources)) |-> 0]
                /\ pc' = "spawn"
                /\ run' = run
           ELSE /\ pc' = "exited"
                /\ run' = [run EXCEPT !.exit = "1", !.readError = read.err]
                /\ UNCHANGED <<tfState, workers, calls>>
    /\ UNCHANGED <<config, fs, s3, spawned, resultsChan, results, cmdIdx, events>>

(***************************************************************************)
(* executeCommands and handleExecution.                                    *)
(***************************************************************************)
RECURSIVE TrimLeft(_)
TrimLeft(s) == IF Len(s) > 0 /\ Head(s) = " " THEN TrimLeft(Tail(s)) ELSE s

RECURSIVE TrimRight(_)
TrimRight(s) ==
    IF Len(s) > 0 /\ s[Len(s)] = " " THEN TrimRight(SubSeq(s, 1, Len(s) - 1)) ELSE s

TrimSpace(s) == TrimRight(TrimLeft(s))

\* strings.Fields: the maximal pieces without a space
Fields(s) == SelectSeq(Split(s, " "), LAMBDA part : part # EmptyString)

RECURSIVE Join(_, _)
Join(parts, sep) ==
    IF Len(parts) = 0 THEN EmptyString
    ELSE IF Len(parts) = 1 THEN parts[1]
    ELSE parts[1] \o << sep >> \o Join(Tail(parts), sep)

HasStatePrefix(arg) == Len(arg) > 0 /\ arg[1] = "-state="
FoundStateFlag(cmdArgs) == \E k \in 1..Len(cmdArgs) : HasStatePrefix(cmdArgs[k])

StateFilePath == << "local" >>
S3State == << "s3://bucket/key" >>

statePathForTerraformCLI == IF config.IsS3State THEN S3State ELSE StateFilePath

StateFlag(path) == << "-state=" >> \o path

\* One command of the loop, up to exec.Command: whether it is skipped as blank,
\* refused as malformed, or run, with which arguments, and whether it counts
\* as state-altering.
PrepareCommand(cmdStr, statePath) ==
    LET parts == Fields(TrimSpace(cmdStr))
        cmdName == parts[1]
        cmdArgs == Tail(parts)
        flag == IF FoundStateFlag(cmdArgs) THEN << >> ELSE << StateFlag(statePath) >>
        plain == [kind |-> "run", altering |-> FALSE, cmdName |-> cmdName,
                  finalArgs |-> cmdArgs]
    IN  IF Len(parts) = 0
        THEN [kind |-> "blank", altering |-> FALSE, cmdName |-> EmptyString,
              finalArgs |-> << >>]
        ELSE IF cmdName = << "terraform" >> /\ Len(cmdArgs) > 0
        THEN IF cmdArgs[1] = << "import" >>
             THEN IF Len(cmdArgs) < 3
                  THEN [kind |-> "malformed", altering |-> TRUE, cmdName |-> cmdName,
                        finalArgs |-> << >>]
                  ELSE [kind |-> "run", altering |-> TRUE, cmdName |-> cmdName,
                        finalArgs |-> << cmdArgs[1] >> \o flag
                                      \o << cmdArgs[2], cmdArgs[3] >>
                                      \o SubSeq(cmdArgs, 4, Len(cmdArgs))]
             ELSE IF cmdArgs[1] = << "state" >>
             THEN IF Len(cmdArgs) < 2
                  THEN [kind |-> "malformed", altering |-> TRUE, cmdName |-> cmdName,
                        finalArgs |-> << >>]
                  ELSE [kind |-> "run", altering |-> TRUE, cmdName |-> cmdName,
                        finalArgs |-> << cmdArgs[1], cmdArgs[2] >> \o flag
                                      \o SubSeq(cmdArgs, 3, Len(cmdArgs))]
             ELSE plain
        ELSE plain

CommandLog(command, exitCode, failed) ==
    [Command |-> command, ExitCode |-> exitCode, Error |-> failed]

\* terraform import / terraform state, run successfully, rewrite the state
\* file named by -state=; the model follows the file at StateFilePath.
RewritesLocalState(prepared) ==
    /\ prepared.altering
    /\ \E k \in 1..Len(prepared.finalArgs) :
          prepared.finalArgs[k] = StateFlag(StateFilePath)

\* if config.ExecuteCommands { ... }
ExecuteOptionMutant == TRUE
ExecuteOption == config.ExecuteCommands

\* handleExecution up to the loop of executeCommands: nothing runs without
\* the execute option.  With an empty list the loop has no iteration.
HandleExecution ==
    /\ pc = "exec"
    /\ pc' = IF ExecuteOption THEN "commands" ELSE "post"
    /\ cmdIdx' = 1
    /\ run' = [run EXCEPT !.stateAltering = FALSE, !.firstError = FALSE,
                          !.logs = << >>, !.stateFileModified = FALSE]
    /\ UNCHANGED <<config, fs, s3, tfState, spawned, workers, calls, resultsChan,
                   results, events>>

\* Where the loop goes after a command that was refused as malformed (continue)
\* or was run (the end of the loop body): to the next command, whether or not
\* this one failed.
ContinueMutant(idx, failed) == IF failed THEN Len(results.RunCommands) + 1 ELSE idx + 1
Continue(idx, failed) == idx + 1

\* exec.Command(cmdName, finalArgs...) and cmd.Run(): the program and the
\* arguments it is started with, one string each.
Invocation(op, ok, cmdName, finalArgs) ==
    [op |-> op, ok |-> ok, name |-> cmdName, args |-> finalArgs]

\* One iteration of  for _, cmdStr := range commands.
ExecuteCommand ==
    /\ pc = "commands"
    /\ cmdIdx <= Len(results.RunCommands)
    /\ LET cmdStr == TrimSpace(results.RunCommands[cmdIdx])
           prepared == PrepareCommand(cmdStr, statePathForTerraformCLI)
           command == Join(<< prepared.cmdName >> \o prepared.finalArgs, " ")
       IN  CASE prepared.kind = "blank" ->
                   /\ cmdIdx' = cmdIdx + 1
                   /\ UNCHANGED <<fs, run, events>>
             [] prepared.kind = "malformed" ->
                   /\ cmdIdx' = Continue(cmdIdx, TRUE)
                   /\ run' = [run EXCEPT !.stateAltering = TRUE, !.firstError = TRUE,
                                         !.logs = Append(@, CommandLog(cmdStr, 1, TRUE))]
                   /\ UNCHANGED <<fs, events>>
             [] OTHER ->
                   \E succeeds \in BOOLEAN :
                      /\ cmdIdx' = Continue(cmdIdx, ~succeeds)
                      /\ run' = [run EXCEPT
                            !.stateAltering = @ \/ prepared.altering,
                            !.firstError = @ \/ ~succeeds,
                            !.logs = Append(@, CommandLog(command,
                                                IF succeeds THEN 0 ELSE 1, ~succeeds))]
                      /\ fs' = IF succeeds /\ RewritesLocalState(prepared)
                                  /\ fs.state.exists
                               THEN [fs EXCEPT !.state.rev = @ + 1]
                               ELSE fs
                      /\ events' = Append(events,
                                      Invocation(IF prepared.altering
                                                 THEN "alteringCommand" ELSE "command",
                                                 succeeds, prepared.cmdName,
                                                 prepared.finalArgs))
    /\ UNCHANGED <<config, s3, pc, tfState, spawned, workers, calls, resultsChan,
                   results>>

\* Whether handleExecution uploads the local state file to S3Bucket/S3Key.
UploadAfterExecutionMutant(isS3State, failed, modified) == isS3State /\ ~failed
UploadAfterExecution(isS3State, failed, modified) == isS3State /\ ~failed /\ modified

\* uploadStateFileToS3(localStateFilePath, S3Bucket, S3Key)
uploadStateFileToS3(store, file, ok) ==
    IF ok /\ file.exists THEN [store EXCEPT !.object = file] ELSE store

\* The rest of handleExecution, after executeCommands returned.
FinishExecution ==
    /\ pc = "commands"
    /\ cmdIdx > Len(results.RunCommands)
    /\ results' = [results EXCEPT !.CommandExecutionLogs = run.logs]
    /\ run' = [run EXCEPT !.stateFileModified = run.stateAltering]
    /\ IF UploadAfterExecution(config.IsS3State, run.firstError, run.stateAltering)
       THEN \E ok \in BOOLEAN :
               /\ s3' = uploadStateFileToS3(s3, fs.state, ok)
               /\ events' = Append(events, Event("uploadState", ok /\ fs.state.exists))
       ELSE UNCHANGED <<s3, events>>
    /\ pc' = "post"
    /\ UNCHANGED <<config, fs, tfState, spawned, workers, calls, resultsChan, cmdIdx>>

(***************************************************************************)
(* handlePostReconciliationBackupsAndUpload.                               *)
(***************************************************************************)
\* contentChanged := both hashes known and different
contentChangedMutant(originalStateFileHash, newStateFileHash) ==
    newStateFileHash # originalStateFileHash
contentChanged(originalStateFileHash, newStateFileHash) ==
    /\ originalStateFileHash # NoHash
    /\ newStateFileHash # NoHash
    /\ newStateFileHash # originalStateFileHash

\* The file at localStateFilePath; the path is "" until setup returned it.
LocalStateFile == IF run.localPathSet THEN fs.state ELSE NoFile

\* The reports and the 'new' backup, each with its .sha256, written when
\* BackupsDir accepts writes.
WriteArtifacts(files, local, newStateFileHash, yearMonth) ==
    IF ~files.writable THEN files
    ELSE LET paths == << "report.md" >> \o Sidecar(files, "report.md.sha256")
                      \o (IF local.exists THEN << "new" >> ELSE << >>)
                      \o (IF local.exists /\ newStateFileHash # NoHash
                          THEN Sidecar(files, "new.sha256") ELSE << >>)
                      \o << "report.json" >> \o Sidecar(files, "report.json.sha256")
             reports == [files EXCEPT !.reportMD = TRUE,
                                      !.reportMDSha = files.sidecars \/ @,
                                      !.reportJSON = TRUE,
                                      !.reportJSONSha = files.sidecars \/ @,
                                      !.written = Written(files, paths, yearMonth)]
         IN  IF local.exists
             THEN [reports EXCEPT !.new = local,
                                  !.newSha = IF newStateFileHash # NoHash /\ files.sidecars
                                             THEN newStateFileHash ELSE files.newSha]
             ELSE reports

\* The uploads under state-backups/<yearMonth>/<timestamp>/
BackupKeys(files, originalStateFileHash, newStateFileHash) ==
    (IF files.original.exists THEN {"original"} ELSE {})
    \cup (IF originalStateFileHash # NoHash THEN {"original.sha256"} ELSE {})
    \cup (IF files.new.exists THEN {"new"} ELSE {})
    \cup (IF files.new.exists /\ newStateFileHash # NoHash THEN {"new.sha256"} ELSE {})
    \cup (IF files.reportMD THEN {"report.md", "report.md.sha256"} ELSE {})
    \cup (IF files.reportJSON THEN {"report.json", "report.json.sha256"} ELSE {})

\* The whole handler; uploadOK is whether the final upload to S3Key succeeds,
\* yearMonth the month its calls of createBackupPath fall in.
\* It yields the new files, store, run and history, and whether it returns
\* an error.
PostReconciliation(uploadOK, yearMonth) ==
    LET local == LocalStateFile
        newStateFileHash == calculateFileSHA256(local)
        changed == contentChanged(run.originalStateFileHash, newStateFileHash)
        files == WriteArtifacts(fs, local, newStateFileHash, yearMonth)
        hashed == Append(events, Event("hashNew", newStateFileHash # NoHash))
        uploads == config.IsS3State /\ changed
    IN  [ fs |-> files,
          s3 |-> IF uploads
                 THEN uploadStateFileToS3(
                          [s3 EXCEPT !.backups = @ \cup BackupKeys(files,
                                         run.originalStateFileHash, newStateFileHash)],
                          local, uploadOK)
                 ELSE s3,
          run |-> [run EXCEPT !.newStateFileHash = newStateFileHash,
                              !.contentChanged = changed],
          events |-> IF uploads
                     THEN Append(hashed, Event("uploadState", uploadOK /\ local.exists))
                     ELSE hashed,
          err |-> uploads /\ ~(uploadOK /\ local.exists) ]

\* The paths runApplication derives for the summary before it calls the
\* handler, in the month yearMonth.
SummaryPaths(yearMonth) ==
    LET at(prefix, extension) == BackupPath(prefix, extension, yearMonth, fs.writable)
    IN  [ OriginalPath |-> at("original", ".tfstate"),
          NewPath |-> at("new", ".tfstate"),
          ReportPath |-> at("report", ".txt"),
          JsonReportPath |-> at("report", ".json") ]

\* runApplication's call of the handler, after it derived the paths of the
\* summary; an error goes back to main, which panics with it, after the
\* deferred removal of the temporary file.
HandlePostReconciliation ==
    /\ pc = "post"
    /\ \E uploadOK \in BOOLEAN, derived \in 1..Len(Months) :
       \E handled \in derived..Len(Months) :
          LET post == PostReconciliation(uploadOK, Months[handled])
          IN  /\ s3' = post.s3
              /\ run' = [post.run EXCEPT !.summary = SummaryPaths(Months[derived])]
              /\ events' = post.events
              /\ IF post.err
                 THEN /\ pc' = "recover"
                      /\ fs' = IF config.IsS3State
                               THEN [post.fs EXCEPT !.state = NoFile] ELSE post.fs
                 ELSE /\ pc' = "render"
                      /\ fs' = post.fs
    /\ UNCHANGED <<config, tfState, spawned, workers, calls, resultsChan, results,
                   cmdIdx>>

\* The report goes to stdout, runApplication returns nil and removes the
\* temporary file of an S3 run, main returns.
RenderAndReturn ==
    /\ pc = "render"
    /\ pc' = "exited"
    /\ run' = [run EXCEPT !.exit = "0"]
    /\ fs' = IF config.IsS3State THEN [fs EXCEPT !.state = NoFile] ELSE fs
    /\ UNCHANGED <<config, s3, tfState, spawned, workers, calls, resultsChan, results,
                   cmdIdx, events>>

\* main's deferred recovery: record the error, run the handler once more for
\* an S3 state, exit with status 1.
Recover ==
    /\ pc = "recover"
    /\ results' = [results EXCEPT !.ApplicationError = TRUE]
    /\ pc' = "exited"
    /\ IF config.IsS3State
       THEN \E uploadOK \in BOOLEAN, handled \in 1..Len(Months) :
               LET post == PostReconciliation(uploadOK, Months[handled])
               IN  /\ fs' = post.fs
                   /\ s3' = post.s3
                   /\ run' = [post.run EXCEPT !.exit = "1"]
                   /\ events' = post.events
       ELSE /\ run' = [run EXCEPT !.exit = "1"]
            /\ UNCHANGED <<fs, s3, events>>
    /\ UNCHANGED <<config, tfState, spawned, workers, calls, resultsChan, cmdIdx>>

(***************************************************************************)
(* The snapshots and configurations of the runs.                           *)
(***************************************************************************)
AWSRegion == << "us-west-2" >>

Arn(service, region, resource) ==
    << "arn", ":", "aws", ":", service, ":" >> \o region \o << ":", "123", ":", resource >>

OtherRegionArn == Arn("elasticloadbalancing", << "us-east-1" >>, "lb/n")
SameRegionArn == Arn("elasticloadbalancing", AWSRegion, "lb/n")
\* a global service: the region segment is empty
GlobalArn == Arn("iam", EmptyString, "role/n")

Resource(module, mode, type, name, instances) ==
    [Module |-> module, Mode |-> mode, Type |-> type, Name |-> name,
     Instances |-> instances]

Instance(indexKey, form, attrs) ==
    [IndexKey |-> indexKey, Deposed |-> EmptyString, form |-> form, attrs |-> attrs]

\* An object that a replacement left behind: it is listed beside the current
\* object of its instance, with the same index key.
Deposed(instance) == [instance EXCEPT !.Deposed = << "d" >>]

WithId(id) == [NoAttributes EXCEPT !["id"] = Str(id)]

\* The resource records of the runs, each with the instance objects it may
\* hold.  The two objects of aws_vpc.n are the current and a deposed object
\* of the same instance; the attributes of aws_vpc.m do not decode.
PipelinePool ==
    { Resource(EmptyString, "managed", "aws_vpc", << "n" >>,
               << Instance(NoIndexKey, "raw", WithId(<< "vpc-1" >>)),
                  Deposed(Instance(NoIndexKey, "raw", WithId(<< "vpc-2" >>))) >>),
      Resource(EmptyString, "managed", "aws_lb", << "n" >>,
               << Instance(NoIndexKey, "raw",
                           [NoAttributes EXCEPT !["arn"] = Str(OtherRegionArn)]) >>),
      Resource(EmptyString, "data", "aws_caller_identity", << "n" >>,
               << Instance(NoIndexKey, "raw", NoAttributes) >>),
      Resource(<< "module", ".", "m" >>, "managed", "aws_foo", << "n" >>,
               << Instance(NoIndexKey, "none", NoAttributes) >>),
      Resource(EmptyString, "managed", "aws_vpc", << "m" >>,
               << Instance(NoIndexKey, "bad", NoAttributes) >>) }

\* The records of the pool with k of their instance objects each, in the
\* order of the pool.
ResourcesWith(pool, k) ==
    UNION { { [r EXCEPT !.Instances = [j \in 1..k |-> r.Instances[pick[j]]]] :
                pick \in { f \in [1..k -> 1..Len(r.Instances)] :
                             \A a, b \in 1..k : a < b => f[a] < f[b] } } : r \in pool }

SameRecord(r, q) ==
    r.Module = q.Module /\ r.Mode = q.Mode /\ r.Type = q.Type /\ r.Name = q.Name

\* The snapshots of at most n instances; a resource has one record.
RECURSIVE Snapshots(_, _)
Snapshots(pool, n) ==
    { << >> } \cup
    UNION { UNION { { << r >> \o rest :
                        rest \in { t \in Snapshots(pool, n - k) :
                                     \A j \in 1..Len(t) : ~SameRecord(r, t[j]) } } :
                    r \in ResourcesWith(pool, k) } : k \in 1..n }

Configs ==
    [ IsS3State : BOOLEAN, ExecuteCommands : BOOLEAN, Concurrency : 1..MaxConcurrency,
      AWSRegion : {AWSRegion} ]

NoFiles ==
    [ state |-> NoFile, original |-> NoFile, originalSha |-> NoHash, new |-> NoFile,
      newSha |-> NoHash, reportMD |-> FALSE, reportMDSha |-> FALSE,
      reportJSON |-> FALSE, reportJSONSha |-> FALSE, writable |-> TRUE,
      sidecars |-> TRUE, written |-> << >> ]

\* BackupsDir after a run of the same state file name that started within
\* the same second: createBackupPath gives this run the same paths.
EarlierRun ==
    [ NoFiles EXCEPT !.original = StateFile(<< >>, 0),
                     !.originalSha = calculateFileSHA256(StateFile(<< >>, 0)),
                     !.new = StateFile(<< >>, 0),
                     !.newSha = calculateFileSHA256(StateFile(<< >>, 0)),
                     !.reportMD = TRUE, !.reportMDSha = TRUE,
                     !.reportJSON = TRUE, !.reportJSONSha = TRUE ]

\* The bytes of the state files of the runs: a version 4 document, one that
\* declares version 99, an empty file and a file of the old binary format.
PipelineSources ==
    { ValidV4, Source(<< >>, "{", "ok", "99", FALSE), Source(<< >>, "", "syntax", "absent", FALSE),
      Source(<< >>, "x", "syntax", "absent", FALSE) }

NoState == [Resources |-> << >>]

\* main has parsed the configuration and is about to call runApplication.
Init ==
    /\ config \in Configs
    /\ \E snapshot \in Snapshots(PipelinePool, MaxInstances), writable \in BOOLEAN,
          present \in BOOLEAN, earlier \in BOOLEAN, src \in PipelineSources,
          sidecars \in BOOLEAN :
          /\ config.IsS3State => present
          /\ earlier => writable
          /\ ~sidecars => writable
          /\ src # ValidV4 => snapshot = << >>
          /\ fs = [(IF earlier THEN EarlierRun ELSE NoFiles) EXCEPT
                     !.writable = writable,
                     !.sidecars = sidecars,
                     !.state = IF config.IsS3State \/ ~present THEN NoFile
                               ELSE [StateFile(snapshot, 0) EXCEPT !.src = src]]
          /\ s3 = [object |-> IF config.IsS3State
                              THEN [StateFile(snapshot, 0) EXCEPT !.src = src] ELSE NoFile,
                   backups |-> {}]
    /\ pc = "init"
    /\ tfState = NoState
    /\ spawned = 0
    /\ workers = << >>
    /\ calls = << >>
    /\ resultsChan = [queue |-> << >>, closed |-> FALSE]
    /\ results = EmptyResults
    /\ run = InitialRun
    /\ cmdIdx = 0
    /\ events = << >>

Next ==
    \/ InitComponents
    \/ SetupStateFile
    \/ OpenAndReadStateFile
    \/ SpawnWorker
    \/ StartCloser
    \/ \E i \in 1..spawned : WorkerRun(i)
    \/ \E i \in 1..spawned : WorkerVerifyReturn(i)
    \/ \E i \in 1..spawned : WorkerSend(i)
    \/ \E i \in 1..spawned : WorkerDone(i)
    \/ CloseChannel
    \/ CollectorReceive
    \/ ProcessResourcesReturn
    \/ SortResults
    \/ HandleExecution
    \/ ExecuteCommand
    \/ FinishExecution
    \/ HandlePostReconciliation
    \/ RenderAndReturn
    \/ Recover

Spec == Init /\ [][Next]_vars

(***************************************************************************)
(* The classification on its own: processResources over a snapshot of one  *)
(* instance, drawn from a wide range of kinds, attribute maps and index    *)
(* keys.                                                                   *)
(***************************************************************************)
ClassifyKinds ==
    { "aws_vpc", "aws_lb", "aws_iam_role", "aws_security_group", "aws_route53_record",
      "aws_route", "aws_autoscaling_policy", "aws_security_group_rule",
      "aws_ecs_cluster", "aws_ecs_service", "aws_ecs_task_definition", "aws_region",
      "aws_caller_identity", "local_file", "aws_foo" }

\* The attribute maps: the values of id, arn, role_arn and name vary on
\* their own, every other attribute is either absent or a string.
ClassifyAttributes ==
    { [a \in AttrNames |->
         CASE a = "id" -> id [] a = "arn" -> arn [] a = "role_arn" -> roleArn
           [] a = "name" -> name [] OTHER -> other] :
      id \in { Absent, Str(EmptyString), Str(<< "vpc-1" >>), Str(<< "VPC-1" >>) },
      arn \in { Absent, Null, Str(EmptyString), Str(OtherRegionArn), Str(SameRegionArn),
                Str(GlobalArn), Str(<< "lb/n" >>) },
      roleArn \in { Absent, Str(OtherRegionArn) },
      name \in { Absent, Str(<< "us-east-1" >>), Str(AWSRegion), Num(<< "1" >>) },
      other \in { Absent, Str(<< "x" >>) } }

IndexKeys ==
    { NoIndexKey, StringKey(<< "a" >>), NumberKey(2), NumberKey(3), OtherKey(<< "true" >>) }

ClassifyInstances == { Instance(NoIndexKey, "raw", attrs) : attrs \in ClassifyAttributes }

AddressInstances ==
    { Instance(key, form, WithId(<< "vpc-1" >>)) :
        key \in IndexKeys, form \in {"raw", "flat", "bad", "none"} }

\* Routes, with every combination of the attributes the case of aws_route
\* reads.
RouteInstances ==
    { Instance(NoIndexKey, "raw",
               [NoAttributes EXCEPT !["route_table_id"] = table,
                                    !["destination_cidr_block"] = cidr,
                                    !["destination_ipv6_cidr_block"] = ipv6]) :
        table \in { Absent, Str(EmptyString), Str(<< "x" >>) },
        cidr \in { Absent, Str(EmptyString), Str(<< "x" >>) },
        ipv6 \in { Absent, Null, Str(EmptyString), Str(<< "x" >>) } }

ClassifyResources ==
    { Resource(EmptyString, mode, type, << "n" >>, << inst >>) :
        mode \in { "managed", "data" }, type \in ClassifyKinds,
        inst \in ClassifyInstances }
    \cup { Resource(EmptyString, "managed", "aws_route", << "n" >>, << inst >>) :
             inst \in RouteInstances }
    \cup { Resource(module, "managed", "aws_vpc", << "n" >>, << inst >>) :
             module \in { EmptyString, << "module", ".", "m" >> },
             inst \in AddressInstances }

\* processResources is entered with the decoded snapshot.
InitClassify ==
    /\ config = [IsS3State |-> FALSE, ExecuteCommands |-> FALSE,
                 Concurrency |-> MaxConcurrency, AWSRegion |-> AWSRegion]
    /\ \E r \in ClassifyResources :
          /\ tfState = [Resources |-> << r >>]
          /\ fs = [NoFiles EXCEPT !.state = StateFile(<< r >>, 0)]
    /\ s3 = [object |-> NoFile, backups |-> {}]
    /\ pc = "spawn"
    /\ spawned = 0
    /\ workers = << IdleWorker >>
    /\ calls = << 0 >>
    /\ resultsChan = [queue |-> << >>, closed |-> FALSE]
    /\ results = EmptyResults
    /\ run = [InitialRun EXCEPT !.localPathSet = TRUE]
    /\ cmdIdx = 0
    /\ events = << >>

NextClassify ==
    \/ SpawnWorker
    \/ StartCloser
    \/ \E i \in 1..spawned : WorkerRun(i)
    \/ \E i \in 1..spawned : WorkerVerifyReturn(i)
    \/ \E i \in 1..spawned : WorkerSend(i)
    \/ \E i \in 1..spawned : WorkerDone(i)
    \/ CloseChannel
    \/ CollectorReceive
    \/ ProcessResourcesReturn

SpecClassify == InitClassify /\ [][NextClassify]_vars

(***************************************************************************)
(* processResources under the scheduler of Go.  The snapshots are those of *)
(* the runs, the concurrency is any of the bound.  A goroutine that can    *)
(* take a step is scheduled in the end, the main goroutine included, and a *)
(* verifier that was called returns: weak fairness of every step.          *)
(***************************************************************************)
InitFanOut ==
    /\ \E snapshot \in Snapshots(PipelinePool, MaxInstances),
          concurrency \in 1..MaxConcurrency :
          /\ config = [IsS3State |-> FALSE, ExecuteCommands |-> FALSE,
                       Concurrency |-> concurrency, AWSRegion |-> AWSRegion]
          /\ tfState = [Resources |-> snapshot]
          /\ fs = [NoFiles EXCEPT !.state = StateFile(snapshot, 0)]
          /\ workers = [i \in 1..Len(WorkItems(snapshot)) |-> IdleWorker]
          /\ calls = [i \in 1..Len(WorkItems(snapshot)) |-> 0]
    /\ s3 = [object |-> NoFile, backups |-> {}]
    /\ pc = "spawn"
    /\ spawned = 0
    /\ resultsChan = [queue |-> << >>, closed |-> FALSE]
    /\ results = EmptyResults
    /\ run = [InitialRun EXCEPT !.localPathSet = TRUE]
    /\ cmdIdx = 0
    /\ events = << >>

SpecFanOut ==
    /\ InitFanOut /\ [][NextClassify]_vars
    /\ WF_vars(SpawnWorker)
    /\ WF_vars(StartCloser)
    /\ \A i \in 1..MaxInstances :
          /\ WF_vars(i <= spawned /\ WorkerRun(i))
          /\ WF_vars(i <= spawned /\ WorkerVerifyReturn(i))
          /\ WF_vars(i <= spawned /\ WorkerSend(i))
          /\ WF_vars(i <= spawned /\ WorkerDone(i))
    /\ WF_vars(CloseChannel)
    /\ WF_vars(CollectorReceive)
    /\ WF_vars(ProcessResourcesReturn)

(***************************************************************************)
(* executeCommands on its own: handleExecution over lists of commands of   *)
(* every shape.                                                            *)
(***************************************************************************)
VpcAddress == << "aws_vpc", ".", "n" >>

CommandPool ==
    { EmptyString,
      << " " >>,
      << "terraform", " ", "import", " " >> \o VpcAddress,
      << "terraform", " ", "state" >>,
      ImportCommand(VpcAddress, << "vpc-9" >>),
      StateRmCommand(VpcAddress),
      << " ", "terraform", " ", " ", "state", " ", "rm", " ", "-state=", "other", " " >>
          \o VpcAddress \o << " " >>,
      << "terraform", " ", "plan" >>,
      << "echo" >> }

MaxCommands == 3

CommandLists == UNION { [1..n -> CommandPool] : n \in 0..MaxCommands }

\* runApplication is about to call handleExecution.
InitCommands ==
    /\ config \in [ IsS3State : BOOLEAN, ExecuteCommands : BOOLEAN,
                     Concurrency : {MaxConcurrency}, AWSRegion : {AWSRegion} ]
    /\ fs = [NoFiles EXCEPT !.state = StateFile(<< >>, 0)]
    /\ s3 = [object |-> IF config.IsS3State THEN StateFile(<< >>, 0) ELSE NoFile,
             backups |-> {}]
    /\ pc = "exec"
    /\ tfState = NoState
    /\ spawned = 0
    /\ workers = << >>
    /\ calls = << >>
    /\ resultsChan = [queue |-> << >>, closed |-> TRUE]
    /\ \E commands \in CommandLists : results = [EmptyResults EXCEPT !.RunCommands = commands]
    /\ run = [InitialRun EXCEPT !.localPathSet = TRUE]
    /\ cmdIdx = 0
    /\ events = << >>

NextCommands ==
    \/ HandleExecution
    \/ ExecuteCommand
    \/ FinishExecution

SpecCommands == InitCommands /\ [][NextCommands]_vars

(***************************************************************************)
(* From processResourceInstance to executeCommands: one instance of        *)
(* aws_vpc has been classified, collected and sorted, and its command, if  *)
(* it has one, is the list handleExecution is called with.  The index keys *)
(* are those of count and for_each, a for_each key with a space among      *)
(* them; the inventory answers with IDs with and without a space.          *)
(***************************************************************************)
InitRoundTrip ==
    /\ config \in [ IsS3State : BOOLEAN, ExecuteCommands : BOOLEAN,
                     Concurrency : {MaxConcurrency}, AWSRegion : {AWSRegion} ]
    /\ \E key \in { NoIndexKey, StringKey(<< "a" >>), StringKey(<< "a", " ", "b" >>),
                     NumberKey(2), OtherKey(<< "true" >>) },
          outcome \in { Outcome(EmptyString, FALSE, TRUE), Outcome(EmptyString, FALSE, FALSE),
                        Outcome(<< "vpc-1" >>, TRUE, FALSE), Outcome(<< "vpc-9" >>, TRUE, FALSE),
                        Outcome(<< "vpc", " ", "9" >>, TRUE, FALSE) },
          module \in { EmptyString, << "module", ".", "m" >> } :
          LET inst == Instance(key, "raw", WithId(<< "vpc-1" >>))
              r == Resource(module, "managed", "aws_vpc", << "n" >>, << inst >>)
              step == BeforeVerifier(r, inst, config.AWSRegion)
              status == [Classify(step.status, outcome) EXCEPT !.Kind = KindOf(r)]
          IN  /\ tfState = [Resources |-> << r >>]
              /\ fs = [NoFiles EXCEPT !.state = StateFile(<< r >>, 0)]
              /\ s3 = [object |-> IF config.IsS3State THEN StateFile(<< r >>, 0)
                                  ELSE NoFile,
                       backups |-> {}]
              /\ workers = << [st |-> "done", status |-> status, outcome |-> outcome] >>
              /\ results = sortResults(Collect(EmptyResults,
                                               [src |-> 1, status |-> status]))
    /\ pc = "exec"
    /\ spawned = 1
    /\ calls = << 1 >>
    /\ resultsChan = [queue |-> << >>, closed |-> TRUE]
    /\ run = [InitialRun EXCEPT !.localPathSet = TRUE]
    /\ cmdIdx = 0
    /\ events = << >>

SpecRoundTrip == InitRoundTrip /\ [][NextCommands]_vars

(***************************************************************************)
(* Read on its own: openAndReadStateFile over a wide range of files.       *)
(***************************************************************************)
\* Files of every shape: empty or white space only, starting with a byte
\* that is no bracket (a binary file, or a JSON scalar such as 4 or null),
\* a JSON array, and an object that is malformed, has a version of the wrong
\* type, or has any version or none, and does or does not decode as
\* StateFileV4.
AllSources ==
    UNION { { Source(l, "", "syntax", "absent", FALSE) }
            \cup { Source(l, "x", j, "absent", FALSE) : j \in { "syntax", "type", "ok" } }
            \cup { Source(l, "[", j, "absent", FALSE) : j \in { "syntax", "type" } }
            \cup { Source(l, "{", "syntax", "absent", FALSE) }
            \cup { Source(l, "{", "type", "absent", v4) : v4 \in BOOLEAN }
            \cup { Source(l, "{", "ok", v, v4) :
                     v \in { "absent", "null", "0", "1", "2", "3", "4", "5", "99" },
                     v4 \in BOOLEAN } :
            l \in { << >>, << " " >>, << "\n", "\t" >> } }

\* runApplication is about to call openAndReadStateFile.
InitRead ==
    /\ config = [IsS3State |-> FALSE, ExecuteCommands |-> FALSE,
                 Concurrency |-> MaxConcurrency, AWSRegion |-> AWSRegion]
    /\ \E src \in AllSources, snapshot \in Snapshots(PipelinePool, 1), present \in BOOLEAN :
          fs = [NoFiles EXCEPT !.state = IF present
                                         THEN [StateFile(snapshot, 0) EXCEPT !.src = src]
                                         ELSE NoFile]
    /\ s3 = [object |-> NoFile, backups |-> {}]
    /\ pc = "read"
    /\ tfState = NoState
    /\ spawned = 0
    /\ workers = << >>
    /\ calls = << >>
    /\ resultsChan = [queue |-> << >>, closed |-> FALSE]
    /\ results = EmptyResults
    /\ run = [InitialRun EXCEPT !.localPathSet = TRUE]
    /\ cmdIdx = 0
    /\ events = << >>

NextRead == OpenAndReadStateFile

SpecRead == InitRead /\ [][NextRead]_vars

(***************************************************************************)
(* Properties.  They speak of the instances by their position in the       *)
(* snapshot and read the region of an identifier by counting its colons.   *)
(***************************************************************************)
Item(i) == WorkItems(tfState.Resources)[i]
ItemAttrs(i) == Attributes(Item(i).instance)
ItemAddress(i) == tfAddress(Item(i).resource, Item(i).instance)
DeclaredID(i) == AsString(ItemAttrs(i)["id"])

\* The goroutine of the instance has its status and no call is pending.
Decided(i) == workers[i].st \in {"sending", "sent", "done"}
ReachedVerifier(i) == Decided(i) /\ calls[i] > 0

\* The embedded identifier: the string attribute that comes first in the
\* precedence order, "" without one.
EmbeddedIdentifier(i) ==
    LET present == { k \in 1..Len(ArnAttrOrder) : ItemAttrs(i)[ArnAttrOrder[k]].t = "str" }
    IN  IF present = {} THEN EmptyString
        ELSE ItemAttrs(i)[ArnAttrOrder[CHOOSE k \in present : \A m \in present : k <= m]].s

\* The atoms between the third and the fourth colon.
RegionSegment(arn) ==
    LET colons == { k \in 1..Len(arn) : arn[k] = ":" }
        before(k) == Cardinality({ c \in colons : c < k })
    IN  SelectSeq([k \in 1..Len(arn) |-> IF arn[k] # ":" /\ before(k) = 3 THEN arn[k] ELSE ":"],
                  LAMBDA a : a # ":")

NamesOtherRegion(i) ==
    /\ ~UnmarshalFails(Item(i).instance)
    /\ RegionSegment(EmbeddedIdentifier(i)) \notin { EmptyString, config.AWSRegion }

\* The buckets in which a result of instance i has been filed.
BucketsHolding(i) ==
    { b \in 1..Len(BucketNames) :
        \E k \in 1..Len(results[BucketNames[b]]) : results[BucketNames[b]][k].src = i }

\* C2: an instance whose embedded identifier has a region segment other than
\* the target region never has a verifier called for it, and its category,
\* in its goroutine and in the collected results, is REGION_MISMATCH.
C2_RegionFastPath ==
    \A i \in 1..Len(workers) :
        NamesOtherRegion(i) =>
            /\ calls[i] = 0
            /\ workers[i].st # "calling"
            /\ Decided(i) => workers[i].status.Category = "REGION_MISMATCH"
            /\ \A b \in BucketsHolding(i) : BucketNames[b] = "RegionMismatchResults"

\* An instance of a kind with a verifier, all its lookup attributes present,
\* naming another region, collected as REGION_MISMATCH without a call.
C2_Witness ==
    \E i \in 1..Len(workers) :
        /\ NamesOtherRegion(i)
        /\ Item(i).resource.Type = "aws_lb"
        /\ ItemAttrs(i)["name"].t = "str"
        /\ workers[i].st = "done"
        /\ calls[i] = 0
        /\ BucketsHolding(i) # {}

\* Equality of two strings when the case of letters is ignored.
SameIgnoringCase(s, t) ==
    [k \in 1..Len(s) |-> FoldAtom(s[k])] = [k \in 1..Len(t) |-> FoldAtom(t[k])]

\* C3: after a verifier answered without error that the resource exists, the
\* category is OK with no command exactly when the live ID equals the declared
\* ID ignoring case or the declared ID is empty; otherwise it is
\* POTENTIAL_IMPORT with the command  terraform import <address> <liveID>.
C3_ExistsOkOrImport ==
    \A i \in 1..Len(workers) :
        (ReachedVerifier(i) /\ ~workers[i].outcome.err /\ workers[i].outcome.exists) =>
            LET status == workers[i].status
                live == workers[i].outcome.liveID
            IN  IF SameIgnoringCase(live, DeclaredID(i)) \/ DeclaredID(i) = EmptyString
                THEN status.Category = "OK" /\ status.Command = EmptyString
                ELSE /\ status.Category = "POTENTIAL_IMPORT"
                     /\ status.Command = << "terraform", " ", "import", " " >>
                                            \o ItemAddress(i) \o << " " >> \o live

\* The live ID differs from the declared one only by case: OK.
C3_Witness ==
    \E i \in 1..Len(workers) :
        /\ ReachedVerifier(i)
        /\ ~workers[i].outcome.err /\ workers[i].outcome.exists
        /\ DeclaredID(i) = << "VPC-1" >>
        /\ workers[i].outcome.liveID = << "vpc-1" >>
        /\ workers[i].status.Category = "OK"

\* C4: after a verifier answered, an error gives ERROR with no command
\* whatever exists and the live ID are; no error and exists = false give
\* DANGEROUS with the command  terraform state rm <address>.
C4_ErrorOrDangerous ==
    \A i \in 1..Len(workers) :
        ReachedVerifier(i) =>
            LET status == workers[i].status
                outcome == workers[i].outcome
            IN  /\ outcome.err =>
                      status.Category = "ERROR" /\ status.Command = EmptyString
                /\ (~outcome.err /\ ~outcome.exists) =>
                      /\ status.Category = "DANGEROUS"
                      /\ status.Command = << "terraform", " ", "state", " ", "rm", " " >>
                                             \o ItemAddress(i)

\* An answer with an error, exists = true and a live ID: ERROR.
C4_Witness ==
    \E i \in 1..Len(workers) :
        /\ ReachedVerifier(i)
        /\ workers[i].outcome.err /\ workers[i].outcome.exists
        /\ workers[i].outcome.liveID # EmptyString
        /\ workers[i].status.Category = "ERROR"
        /\ workers[i].st = "done"

\* The kinds with a verifier.
VerifiedKinds ==
    TableKinds \cup { k.type : k \in AnyTypeKinds }
    \cup { "aws_security_group_rule", "aws_route", "aws_autoscaling_policy" }

\* C5: an instance whose embedded identifier names another region is
\* REGION_MISMATCH also when its kind is a data/local kind or has no verifier.
C5_FastPathFirst ==
    \A i \in 1..Len(workers) :
        ( /\ NamesOtherRegion(i)
          /\ Decided(i)
          /\ \/ Item(i).resource.Type \in InfoKinds
             \/ Item(i).resource.Type \notin VerifiedKinds \cup {"aws_region"} ) =>
            /\ workers[i].status.Category = "REGION_MISMATCH"
            /\ workers[i].status.Command = << "terraform", " ", "state", " ", "rm", " " >>
                                              \o ItemAddress(i)

\* A data/local kind naming another region, collected as REGION_MISMATCH.
C5_Witness ==
    \E i \in 1..Len(workers) :
        /\ NamesOtherRegion(i)
        /\ Item(i).resource.Type = "local_file"
        /\ workers[i].st = "done"
        /\ results.RegionMismatchResults # << >>

\* processResources has returned: its caller is past the range loop.
ProcessResourcesReturned == pc \in {"sort", "exec", "commands", "post", "render"}

RECURSIVE SumOfLengths(_, _)
SumOfLengths(res, b) ==
    IF b > Len(BucketNames) THEN 0
    ELSE Len(res[BucketNames[b]]) + SumOfLengths(res, b + 1)

\* The places, bucket and position, at which a result of instance i is filed.
PlacesOf(i) ==
    { bk \in (1..Len(BucketNames)) \X (1..MaxInstances + 1) :
        /\ bk[2] <= Len(results[BucketNames[bk[1]]])
        /\ results[BucketNames[bk[1]]][bk[2]].src = i }

\* C1: once processResources has returned, every instance of the snapshot is
\* filed exactly once across the seven buckets, and the sizes of the buckets
\* add up to the number of instances.
C1_EveryInstanceOnce ==
    ProcessResourcesReturned =>
        /\ \A i \in 1..NumItems : Cardinality(PlacesOf(i)) = 1
        /\ SumOfLengths(results, 1) = NumItems

\* A snapshot of two instances that end in different buckets.
C1_Witness ==
    /\ pc = "sort"
    /\ NumItems = 2
    /\ Cardinality({ b \in 1..Len(BucketNames) : results[BucketNames[b]] # << >> }) = 2

\* The goroutines that have started and not yet finished.
Running == { i \in 1..Len(workers) : workers[i].st \in {"started", "calling", "sending", "sent"} }
InFlight == { i \in 1..Len(workers) : workers[i].st = "calling" }

\* C6: at most concurrency workers run at the same time, and so at most
\* concurrency verifier calls are in flight.
C6_BoundedWorkerPool ==
    /\ Cardinality(Running) <= config.Concurrency
    /\ Cardinality(InFlight) <= config.Concurrency

\* C7: processResources returns, and sortResults starts, only when all
\* workers have finished and all their results have been received: from then
\* on no goroutine is running, the channel is closed and empty, and every
\* instance has its result in a bucket.
C7_Barrier ==
    ProcessResourcesReturned =>
        /\ spawned = NumItems
        /\ \A i \in 1..NumItems : workers[i].st = "done"
        /\ resultsChan.closed /\ resultsChan.queue = << >>
        /\ \A i \in 1..NumItems : BucketsHolding(i) # {}

\* Two instances with concurrency 1, about to be sorted: one goroutine had to
\* wait for room in the channel.
C7_Witness ==
    /\ pc = "sort"
    /\ NumItems = 2
    /\ config.Concurrency = 1
    /\ \A i \in 1..NumItems : workers[i].st = "done"

\* The results of the buckets without the positions they came from.
Statuses(res) ==
    [b \in 1..Len(BucketNames) |->
        [k \in 1..Len(res[BucketNames[b]]) |-> res[BucketNames[b]][k].status]]

\* What the caller collects when the results arrive in snapshot order.
RECURSIVE CollectInOrder(_, _)
CollectInOrder(res, i) ==
    IF i > NumItems THEN res
    ELSE CollectInOrder(Collect(res, [src |-> i, status |-> workers[i].status]), i + 1)

\* C8: after sortResults the buckets hold, for the given snapshot and the
\* given answers of the verifiers, the same sequences of results and the same
\* commands as when the results arrive in snapshot order, whatever order
\* they arrived in and whatever the concurrency.
C8_OrderIndependent ==
    pc \in {"exec", "commands", "post", "render"} =>
        /\ Statuses(results) = Statuses(sortResults(CollectInOrder(EmptyResults, 1)))
        /\ results.RunCommands = sortResults(CollectInOrder(EmptyResults, 1)).RunCommands

\* The positions of the history at which an operation took place.
Positions(ops) == { k \in 1..Len(events) : events[k].op \in ops }

CommandOps == { "command", "alteringCommand" }

\* C9: the local state file is uploaded to S3Bucket/S3Key only if both hashes
\* are known and differ, or a state-altering command was run before.
C9_UploadGated ==
    \A k \in Positions({"uploadState"}) :
        \/ /\ run.originalStateFileHash # NoHash
           /\ run.newStateFileHash # NoHash
           /\ run.newStateFileHash # run.originalStateFileHash
        \/ \E j \in Positions({"alteringCommand"}) : j < k

\* An upload to the original key after a state-altering command.
C9_Witness ==
    /\ \E k \in Positions({"uploadState"}) : events[k].ok
    /\ s3.object.exists
    /\ run.stateFileModified
    /\ pc = "post"

DecodingFailed == pc = "exited" /\ run.readError \notin { "", "Open" }

\* C11: when the state file declares format version 99, decoding fails with
\* the unsupported-version error and the run ends with no worker started and
\* with nothing written under BackupsDir: no original backup, no new backup,
\* no report and no hash file.
C11_UnsupportedVersionNoArtifacts ==
    (pc # "init" /\ pc # "setup" /\ pc # "read" /\ pc # "recover"
        /\ run.localPathSet /\ fs.state.exists /\ fs.state.src.version = "99") =>
        /\ DecodingFailed
        /\ run.readError = "UnsupportedVersion"
        /\ spawned = 0 /\ workers = << >>
        /\ fs.written = << >>

\* Read has been applied to the file at the local path.
ReadApplied == pc # "read" /\ fs.state.exists

\* The bytes of the file that are not white space.
NonBlank(bytes) == SelectSeq(bytes, LAMBDA b : b \notin { " ", "\t", "\n", "\r" })

Brackets == { "{", "[" }

\* C12 as stated: Read fails with ErrNoState on a file of length zero and
\* with the legacy-binary-format error on every other file whose first byte
\* is neither '{' nor '['; in both cases no state is returned.
C12_RejectsWhatDoesNotBeginWithBracket ==
    ReadApplied =>
        LET bytes == Bytes(fs.state.src)
        IN  /\ Len(bytes) = 0 => DecodingFailed /\ run.readError = "ErrNoState"
            /\ (Len(bytes) > 0 /\ bytes[1] \notin Brackets) =>
                   DecodingFailed /\ run.readError = "LegacyBinaryFormat"

\* C12, amended: Read fails with ErrNoState on a file of length zero; white
\* space at the start is skipped, and Read fails with the
\* legacy-binary-format error exactly when the first byte after it is
\* neither '{' nor '['; a file of white space only fails as JSON that cannot
\* be parsed.  No state is returned in any of these cases, whatever version
\* the file declares.
C12_RejectsAfterWhitespace ==
    ReadApplied =>
        LET bytes == Bytes(fs.state.src)
            rest == NonBlank(bytes)
        IN  /\ Len(bytes) = 0 => DecodingFailed /\ run.readError = "ErrNoState"
            /\ (Len(rest) > 0 /\ rest[1] \notin Brackets) =>
                   DecodingFailed /\ run.readError = "LegacyBinaryFormat"
            /\ (Len(rest) > 0 /\ rest[1] \in Brackets) =>
                   run.readError # "LegacyBinaryFormat"
            /\ (Len(bytes) > 0 /\ Len(rest) = 0) =>
                   DecodingFailed /\ run.readError = "JSONSyntax"

\* A binary file and an empty file have been rejected; here the binary one,
\* after white space.
C12_Witness ==
    /\ ReadApplied
    /\ fs.state.src.lead # << >>
    /\ fs.state.src.first = "x"
    /\ run.readError = "LegacyBinaryFormat"
    /\ run.exit = "1"

\* The format version the file declares: none when the file is no JSON
\* object or has no version attribute.
DeclaredVersion == fs.state.src.version

\* C13 as stated: Read returns a state if and only if the declared version
\* is 4.
C13_StateIffVersion4 ==
    ReadApplied => (pc = "spawn" <=> DeclaredVersion = "4")

\* C13, amended: Read returns a state only if the declared version is 4, and
\* then exactly when the document decodes as the version 4 structure; for
\* every other version, for no version and for a version 4 document that
\* does not decode it returns an error and no state.
C13_StateOnlyIfVersion4 ==
    ReadApplied =>
        /\ pc = "spawn" <=> (DeclaredVersion = "4" /\ fs.state.src.v4)
        /\ pc # "spawn" => DecodingFailed /\ tfState = NoState
        /\ pc = "spawn" => tfState.Resources = fs.state.Resources /\ run.readError = ""
        /\ (DeclaredVersion = "4" /\ ~fs.state.src.v4) => run.readError = "ParseV4"
        /\ DeclaredVersion \in { "5", "99" } => run.readError = "UnsupportedVersion"
        /\ DeclaredVersion \in { "absent", "null" } => run.readError # "UnsupportedVersion"

\* A version 4 document with a resource, read after white space.
C13_Witness ==
    /\ ReadApplied
    /\ pc = "spawn"
    /\ fs.state.src.lead # << >>
    /\ tfState.Resources # << >>

\* C14: no write under BackupsDir (original backup, new backup, Markdown
\* report, JSON report, or a .sha256 beside one of them) goes to a path that
\* already holds a file, and so no path is written twice, in the run and in
\* the recovery of main that may follow it.
C14_NoPathWrittenTwice ==
    /\ \A k \in 1..Len(fs.written) : ~fs.written[k].over
    /\ \A j, k \in 1..Len(fs.written) : j < k => fs.written[j].path # fs.written[k].path

\* The commands that are not blank: they have a character that is no space.
IsBlank(cmdStr) == \A k \in 1..Len(cmdStr) : cmdStr[k] = " "
NotBlank(commands) == SelectSeq(commands, LAMBDA c : ~IsBlank(c))

\* The words of a command, the -state= flag left out.
Words(cmdStr) ==
    SelectSeq(Split(cmdStr, " "), LAMBDA w : w # EmptyString /\ w[1] # "-state=")

\* terraform import without ADDR and ID, terraform state without a subcommand
IsMalformed(cmdStr) ==
    LET w == Words(cmdStr)
    IN  /\ Len(w) >= 2 /\ w[1] = << "terraform" >>
        /\ \/ w[2] = << "import" >> /\ Len(w) < 4
           \/ w[2] = << "state" >> /\ Len(w) < 3

\* The commands the loop of executeCommands has been through.
Processed == SubSeq(results.RunCommands, 1, cmdIdx - 1)

\* C15: executeCommands goes through the whole list whatever the commands
\* do: at every point of the loop there is one log per non-blank command
\* processed so far, in the order of the list, each for its command, and
\* every such command that is not malformed has been run; after the loop
\* the logs of all non-blank commands are in the results.
C15_BatchNotStopped ==
    /\ pc = "commands" =>
          /\ Len(run.logs) = Len(NotBlank(Processed))
          /\ \A k \in 1..Len(run.logs) :
                Words(run.logs[k].Command) = Words(NotBlank(Processed)[k])
          /\ Cardinality(Positions(CommandOps))
                = Len(SelectSeq(NotBlank(Processed), LAMBDA c : ~IsMalformed(c)))
    /\ (pc = "post" /\ config.ExecuteCommands) =>
          /\ Len(results.CommandExecutionLogs) = Len(NotBlank(results.RunCommands))
          /\ \A k \in 1..Len(results.CommandExecutionLogs) :
                Words(results.CommandExecutionLogs[k].Command)
                    = Words(NotBlank(results.RunCommands)[k])
          /\ Cardinality(Positions(CommandOps))
                = Len(SelectSeq(NotBlank(results.RunCommands), LAMBDA c : ~IsMalformed(c)))

\* A list of a failing command, a blank one and a command that ran and
\* succeeded after them.
C15_Witness ==
    /\ pc = "post"
    /\ Len(results.RunCommands) = 3
    /\ Len(results.CommandExecutionLogs) = 2
    /\ results.CommandExecutionLogs[1].Error
    /\ ~results.CommandExecutionLogs[2].Error
    /\ IsBlank(results.RunCommands[2])

\* C16: a run in which a remediation command failed ends with an exit
\* status other than zero.
C16_FailedCommandFailsRun ==
    ( /\ pc = "exited"
      /\ \E k \in 1..Len(results.CommandExecutionLogs) :
            results.CommandExecutionLogs[k].Error ) =>
        run.exit # "0"

\* C20: without the execute option no command is run and none is logged,
\* the loop of executeCommands is never entered, the state file and the
\* object in S3 stay as they were, the state-modified flag stays false and
\* nothing is uploaded.
C20_ClassifyOnly ==
    ~config.ExecuteCommands =>
        /\ pc # "commands"
        /\ Positions(CommandOps) = {}
        /\ Positions({"uploadState"}) = {}
        /\ run.logs = << >> /\ results.CommandExecutionLogs = << >>
        /\ ~run.stateFileModified /\ ~run.stateAltering
        /\ fs.state.rev = 0 /\ s3.object.rev = 0

\* A run without the option that found commands to suggest and ended.
C20_Witness ==
    /\ ~config.ExecuteCommands
    /\ pc = "exited"
    /\ run.exit = "0"
    /\ results.RunCommands # << >>
    /\ Positions({"hashNew"}) # {}

\* The category of instance i as a function of the instance and of what its
\* own verifier answered, the other instances left out.
Alone(i) ==
    LET step == BeforeVerifier(Item(i).resource, Item(i).instance, config.AWSRegion)
    IN  CASE step.to = "return" -> step.status.Category
          [] step.to = "missing" -> "ERROR"
          [] OTHER -> Classify(step.status, workers[i].outcome).Category

\* The instances whose result is an error.
Failed == { i \in 1..Len(workers) : Decided(i) /\ workers[i].status.Category = "ERROR" }

Empty(i, a) ==
    \/ ItemAttrs(i)[a].t \in { "absent", "null" }
    \/ ItemAttrs(i)[a].t = "str" /\ ItemAttrs(i)[a].s = EmptyString

\* The attributes by which the verifier of the kind of instance i finds the
\* resource are absent or empty: all of them where one is enough, one of
\* them where all are needed.
IdentifyingAttributesMissing(i) ==
    LET type == Item(i).resource.Type
    IN  CASE type \in { "aws_vpc", "aws_ecs_task_definition" } ->
                Empty(i, IF type = "aws_vpc" THEN "id" ELSE "arn")
          [] type = "aws_iam_role" -> Empty(i, "name")
          [] type = "aws_lb" -> Empty(i, "arn") /\ Empty(i, "name")
          [] type = "aws_security_group" -> Empty(i, "id") /\ Empty(i, "name")
          [] type = "aws_route53_record" ->
                Empty(i, "zone_id") \/ Empty(i, "name") \/ Empty(i, "type")
          [] type = "aws_security_group_rule" -> Empty(i, "security_group_rule_id")
          [] type = "aws_route" ->
                \/ Empty(i, "route_table_id")
                \/ Empty(i, "destination_cidr_block")
                      /\ Empty(i, "destination_ipv6_cidr_block")
          [] type = "aws_autoscaling_policy" ->
                /\ Empty(i, "arn")
                /\ Empty(i, "name") \/ Empty(i, "autoscaling_group_name")
          [] type = "aws_ecs_cluster" -> Empty(i, "name") /\ Empty(i, "cluster_name")
          [] type = "aws_ecs_service" -> Empty(i, "cluster") \/ Empty(i, "name")
          [] OTHER -> FALSE

\* The attributes of instance i decoded and the fast path let it through.
PastFastPath(i) ==
    /\ Decided(i)
    /\ ~UnmarshalFails(Item(i).instance)
    /\ RegionSegment(EmbeddedIdentifier(i)) \in { EmptyString, config.AWSRegion }

\* C18: an instance of a kind with a verifier that is past the fast path and
\* whose identifying attributes are absent or empty is classified ERROR,
\* and no verifier is called for it.
C18_MissingAttributesAreErrors ==
    \A i \in 1..Len(workers) :
        ( /\ PastFastPath(i)
          /\ Item(i).resource.Type \in VerifiedKinds
          /\ IdentifyingAttributesMissing(i) ) =>
            /\ workers[i].status.Category = "ERROR"
            /\ calls[i] = 0

\* The kinds the switch has a case for: those with a verifier, the data and
\* local kinds, and aws_region, which is checked against the region option.
KindsWithCase ==
    VerifiedKinds
    \cup { "aws_caller_identity", "aws_iam_policy_document", "archive_file", "local_file",
           "random_password", "aws_region" }

\* C19: an instance that is past the fast path (its attributes decoded, no
\* embedded identifier names another region) is WARNING when the switch has
\* no case for its kind and INFO when its kind is a data or local kind; no
\* verifier is called for it, its result has no command, and no command is
\* collected for it.
C19_UnsupportedAndDataKinds ==
    \A i \in 1..Len(workers) :
        PastFastPath(i) =>
            LET type == Item(i).resource.Type
                quiet == /\ calls[i] = 0
                         /\ workers[i].status.Command = EmptyString
                         /\ results.RunCommands = << >>
                         /\ ~workers[i].status.ExistsInAWS
            IN  /\ type \notin KindsWithCase =>
                      workers[i].status.Category = "WARNING" /\ quiet
                /\ type \in { "aws_caller_identity", "aws_iam_policy_document",
                               "archive_file", "local_file", "random_password" } =>
                      workers[i].status.Category = "INFO" /\ quiet

\* An instance of a kind without a case, with an id and an identifier of the
\* target region, collected as WARNING.
C19_Witness ==
    \E i \in 1..Len(workers) :
        /\ Item(i).resource.Type = "aws_foo"
        /\ ItemAttrs(i)["id"] = Str(<< "vpc-1" >>)
        /\ ItemAttrs(i)["arn"] = Str(SameRegionArn)
        /\ workers[i].st = "done"
        /\ results.WarningResults # << >>
        /\ pc = "sort"

(***************************************************************************)
(* Addresses, artifacts, commands and the fan-out, continued.              *)
(***************************************************************************)
\* C21: any two distinct instances of the decoded snapshot (different
\* resource records, or different instance entries of one record) have
\* different addresses.
C21_AddressesUnique ==
    \A i, j \in 1..NumItems :
        i # j => ItemAddress(i) # ItemAddress(j)

\* The artifacts of a run and the .sha256 file beside each.
Artifacts == { "original", "new", "report.md", "report.json" }
SiblingOf(path) ==
    CASE path = "original" -> "original.sha256"
      [] path = "new" -> "new.sha256"
      [] path = "report.md" -> "report.md.sha256"
      [] OTHER -> "report.json.sha256"

\* Every write of an artifact is followed by a write of its sibling, and the
\* siblings of the two backups hold the digests of the backups.
SiblingsHoldDigests ==
    /\ \A k \in 1..Len(fs.written) :
          fs.written[k].path \in Artifacts =>
              \E j \in (k + 1)..Len(fs.written) :
                  fs.written[j].path = SiblingOf(fs.written[k].path)
    /\ (\E k \in 1..Len(fs.written) : fs.written[k].path = "original")
          => fs.originalSha = calculateFileSHA256(fs.original)
    /\ (\E k \in 1..Len(fs.written) : fs.written[k].path = "new")
          => fs.newSha = calculateFileSHA256(fs.new)

SummaryPathOf(path) ==
    CASE path = "original" -> run.summary.OriginalPath
      [] path = "new" -> run.summary.NewPath
      [] path = "report.md" -> run.summary.ReportPath
      [] OTHER -> run.summary.JsonReportPath

\* C23: when runApplication has rendered its summary, the path the summary
\* gives for each artifact the run wrote is the path the artifact was written
\* to.
C23_SummaryPathsAreWrittenPaths ==
    (pc = "exited" /\ run.exit = "0") =>
        \A k \in 1..Len(fs.written) :
            fs.written[k].path \in Artifacts =>
                SummaryPathOf(fs.written[k].path) = fs.written[k].at

\* The positions in the precedence order of the attributes of instance i
\* that are strings, and whether one after the first of them names a region
\* other than the target region.
StringPositions(i) ==
    { k \in 1..Len(ArnAttrOrder) : ItemAttrs(i)[ArnAttrOrder[k]].t = "str" }
FirstPosition(i) == CHOOSE k \in StringPositions(i) : \A m \in StringPositions(i) : k <= m
LaterNamesOtherRegion(i) ==
    \E m \in StringPositions(i) :
        /\ m > FirstPosition(i)
        /\ RegionSegment(ItemAttrs(i)[ArnAttrOrder[m]].s) \notin { EmptyString, config.AWSRegion }

\* C24: the fast path reads the first attribute of the precedence order that
\* is a string and no other: with a later attribute that names another
\* region, an instance (of a kind other than aws_region, which compares its
\* name too) is REGION_MISMATCH exactly when the first one names another
\* region, so not when the first one is empty or has no region segment.
C24_FirstStringAttributeDecides ==
    \A i \in 1..Len(workers) :
        ( /\ Decided(i)
          /\ ~UnmarshalFails(Item(i).instance)
          /\ StringPositions(i) # {}
          /\ LaterNamesOtherRegion(i)
          /\ Item(i).resource.Type # "aws_region" ) =>
            LET first == ItemAttrs(i)[ArnAttrOrder[FirstPosition(i)]].s
            IN  workers[i].status.Category = "REGION_MISMATCH"
                    <=> RegionSegment(first) \notin { EmptyString, config.AWSRegion }

\* A role whose arn is the empty string and whose role_arn names another
\* region: a verifier was called for it and it is collected as OK.
C24_Witness ==
    \E i \in 1..Len(workers) :
        /\ Item(i).resource.Type = "aws_iam_role"
        /\ ItemAttrs(i)["arn"] = Str(EmptyString)
        /\ ItemAttrs(i)["role_arn"] = Str(OtherRegionArn)
        /\ LaterNamesOtherRegion(i)
        /\ calls[i] = 1
        /\ workers[i].st = "done"
        /\ workers[i].status.Category = "OK"
        /\ results.OkResults # << >>

\* C25: a classified result carries a command exactly when its category is
\* POTENTIAL_IMPORT, DANGEROUS or REGION_MISMATCH, in the status a goroutine
\* computed and in every result collected into a bucket.
C25_CommandIffRemediable ==
    LET remediable == { "POTENTIAL_IMPORT", "DANGEROUS", "REGION_MISMATCH" }
    IN  /\ \A i \in 1..Len(workers) :
              Decided(i) =>
                  /\ workers[i].status.Category \in Categories
                  /\ workers[i].status.Command # EmptyString
                        <=> workers[i].status.Category \in remediable
        /\ \A b \in 1..Len(BucketNames) :
              \A k \in 1..Len(results[BucketNames[b]]) :
                  results[BucketNames[b]][k].status.Command # EmptyString
                      <=> results[BucketNames[b]][k].status.Category \in remediable

\* An aws_region whose name is another region, past the fast path, collected
\* as REGION_MISMATCH with its command.
C25_Witness ==
    \E i \in 1..Len(workers) :
        /\ Item(i).resource.Type = "aws_region"
        /\ ~NamesOtherRegion(i)
        /\ ItemAttrs(i)["name"] = Str(<< "us-east-1" >>)
        /\ workers[i].st = "done"
        /\ results.RegionMismatchResults # << >>
        /\ results.RegionMismatchResults[1].status.Command
              = << "terraform", " ", "state", " ", "rm", " " >> \o ItemAddress(i)
        /\ results.RunCommands # << >>

\* The commands of the results in the three buckets that hold remediable
\* results, one per result that has one.
RemediableResults ==
    results.PotentialImportResults \o results.DangerousResults
        \o results.RegionMismatchResults
BucketCommands ==
    LET with == SelectSeq(RemediableResults, LAMBDA d : d.status.Command # EmptyString)
    IN  [k \in 1..Len(with) |-> with[k].status.Command]
Occurrences(seq, x) == Cardinality({ k \in 1..Len(seq) : seq[k] = x })

\* C26: once the results are sorted, RunCommands holds each command as many
\* times as the three buckets hold a result with it and nothing else, it is
\* in ascending order, and the k-th command executeCommands runs is the k-th
\* of the list.
C26_CommandListFromBuckets ==
    ( \/ pc \in { "exec", "commands", "post", "render" }
      \/ pc = "exited" /\ run.exit = "0" ) =>
        /\ Len(results.RunCommands) = Len(BucketCommands)
        /\ \A k \in 1..Len(BucketCommands) :
              Occurrences(results.RunCommands, BucketCommands[k])
                  = Occurrences(BucketCommands, BucketCommands[k])
        /\ \A k \in 1..(Len(results.RunCommands) - 1) :
              ~StringLess(results.RunCommands[k + 1], results.RunCommands[k])
        /\ pc = "commands" =>
              /\ Len(run.logs) = cmdIdx - 1
              /\ \A k \in 1..Len(run.logs) :
                    Words(run.logs[k].Command) = Words(results.RunCommands[k])

\* Two different commands, of a REGION_MISMATCH and of another result, both
\* run in the order of the list.
C26_Witness ==
    /\ pc = "post"
    /\ config.ExecuteCommands
    /\ Len(results.RunCommands) = 2
    /\ results.RunCommands[1] # results.RunCommands[2]
    /\ Len(results.RegionMismatchResults) = 1
    /\ Len(results.PotentialImportResults) = 1
    /\ Len(results.CommandExecutionLogs) = 2
    /\ Words(results.CommandExecutionLogs[2].Command) = Words(results.RunCommands[2])

\* The post-reconciliation handler has run: it hashes the working file first.
PostStepAt == Positions({ "hashNew" })

\* C27: when the handler has run without a hash of the original backup or
\* without a hash of the working file, contentChanged is false, nothing is
\* under the backup prefix of the bucket and the handler has made no upload
\* to the original key.
C27_NoHashNoUpload ==
    ( /\ PostStepAt # {}
      /\ \/ run.originalStateFileHash = NoHash
         \/ run.newStateFileHash = NoHash ) =>
        /\ ~run.contentChanged
        /\ s3.backups = {}
        /\ \A k \in Positions({ "uploadState" }) : \A h \in PostStepAt : k < h

\* The state of an S3 run could not be backed up, a state-altering command
\* ran successfully and the handler ran after it.
C27_Witness ==
    /\ config.IsS3State
    /\ ~fs.writable
    /\ run.originalStateFileHash = NoHash
    /\ run.newStateFileHash # NoHash
    /\ run.stateFileModified
    /\ \E k \in Positions({ "alteringCommand" }) : events[k].ok
    /\ PostStepAt # {}
    /\ pc = "exited"
    /\ s3.backups = {}

\* A goroutine that has not handed over its result yet.
Unsent == { i \in 1..Len(workers) : workers[i].st \in { "unborn", "started", "calling", "sending" } }

\* C28: under fair scheduling and with verifiers that return, processResources
\* comes to its return with every goroutine finished and the channel closed
\* and drained; the channel is closed only when every goroutine has sent and
\* finished, so no send is pending on a closed channel, and once closed it
\* stays closed.
C28_FanOutTerminates ==
    /\ <>( /\ pc = "sort"
           /\ \A i \in 1..NumItems : workers[i].st = "done"
           /\ resultsChan.closed /\ resultsChan.queue = << >> )
    /\ [](resultsChan.closed => spawned = NumItems /\ Unsent = {})
    /\ [][resultsChan.closed => resultsChan'.closed]_vars

\* Two goroutines and a channel with room for one result: both were running
\* with the buffer full, and processResources has returned.
C28_Witness ==
    /\ pc = "sort"
    /\ NumItems = 2
    /\ config.Concurrency = 1
    /\ resultsChan.closed
    /\ Len(results.DangerousResults) + Len(results.OkResults) = 2

\* The uploads handleExecution made, which come before the handler hashes
\* the working file, and the state-altering commands that succeeded.
ExecutionUploads ==
    { k \in Positions({ "uploadState" }) : events[k].ok /\ \A h \in PostStepAt : k < h }
AlteringSucceeded == { j \in Positions({ "alteringCommand" }) : events[j].ok }

\* The path of the file handleExecution uploads: the temporary file the state
\* of an S3 run was downloaded to, or the local state file.
UploadedPath == IF config.IsS3State THEN << "tfstate-download" >> ELSE StateFilePath

\* The values of the -state= arguments in a logged command.
StateTargets(command) ==
    LET words == Split(command, " ")
    IN  { Tail(words[k]) : k \in { m \in 1..Len(words) : HasStatePrefix(words[m]) } }

\* C29: when handleExecution has uploaded the working file after
\* state-altering commands succeeded, every command was given the uploaded
\* file as its -state argument, and the object at the original key holds the
\* modifications of each of them.
C29_UploadIsTheCommandsFile ==
    ( /\ pc = "post"
      /\ ExecutionUploads # {}
      /\ AlteringSucceeded # {} ) =>
        /\ \A k \in 1..Len(results.CommandExecutionLogs) :
              StateTargets(results.CommandExecutionLogs[k].Command) = { UploadedPath }
        /\ s3.object.rev = Cardinality(AlteringSucceeded)

\* C30: when executeCommands has gone through the list, for every result
\* with a command the program terraform was started with the address of the
\* result as one of its arguments and, for an import, the live ID as the
\* argument after it.
C30_AddressIsOneArgument ==
    (pc = "post" /\ config.ExecuteCommands) =>
        \A d \in { RemediableResults[k] : k \in 1..Len(RemediableResults) } :
            \E k \in Positions(CommandOps) :
                /\ events[k].name = << "terraform" >>
                /\ \E m \in 1..Len(events[k].args) :
                      /\ events[k].args[m] = d.status.TerraformAddress
                      /\ d.status.Category = "POTENTIAL_IMPORT" =>
                            /\ m < Len(events[k].args)
                            /\ events[k].args[m + 1] = d.status.LiveID

====
